---- MODULE Spec2Model ----
(***************************************************************************)
(* Model of the PiPedal ALSA audio driver (src/src/AlsaDriver.cpp):        *)
(*   - the raw MIDI byte-stream decoder AlsaMidiDeviceImpl                  *)
(*     (ProcessInputBuffer, MidiPut, ReadMidiEvents) and the driver's       *)
(*     per-period event list (ReadMidiData);                                *)
(*   - the realtime loop AlsaDriverImpl::AudioThread with ReadBuffer and    *)
(*     WriteBuffer.                                                         *)
(* Bytes are written in decimal; the hexadecimal value is given in the     *)
(* comments.                                                               *)
(***************************************************************************)
EXTENDS Integers, Sequences, FiniteSets, TLC

(***************************************************************************)
(* Bounds.  The three capacities are program constants scaled down so that  *)
(* the full/overflow cases are reached.                                     *)
(***************************************************************************)
\* number of MIDI input endpoints opened by OpenMidi
NumMidiDevices == 2
\* capacity of midiEvents (4 * 1024 in the source)
MAX_MIDI_EVENT == 2
\* inputSysexBuffer.size() (1024 in the source)
SysexBufferSize == 2
\* sizeof(readBuffer): most bytes one snd_rawmidi_read returns (1024 in the source)
ReadBufferSize == 1
\* most data bytes that follow the status byte on a tape
MaxTapeData == 4
\* bufferSize: frames of one period
BufferSize == 2
\* most bytes waiting in one endpoint between two drains
MaxQueue == 2
\* raw MIDI handles the library holds open at a time
MaxRawmidi == 3
\* audio threads alive at a time
MaxThreads == 2
\* threads that call Close at the same time
NumClosers == 2
\* most channels of a stream of the device
MaxChannels == 3
\* most ports of one stream in a channel selection
MaxPorts == 2
\* control threads that call into the application model
NumCallers == 2
\* sound cards of the machine
NumCards == 2
\* periods: the periods of the ring buffer of an endpoint
Periods == 2

\* static constexpr size_t MAX_MIDI_EVENT_SIZE = 3
MAX_MIDI_EVENT_SIZE == 3
\* uint32_t inputSampleFrame = -1: the all-ones pattern, written -1 here; it is
\* overwritten before it is ever read
NoSampleFrame == -1

MidiDevs == 1 .. NumMidiDevices

\* the retry limit of FillOutputBuffer
FillRetryLimit == 5
\* errno values the device calls return negated
EAGAIN == 11
EPIPE == 32
ESTRPIPE == 86
\* any other error (EIO)
EIO == 5

(***************************************************************************)
(* Byte alphabets.                                                          *)
(***************************************************************************)
\* 0x01, 0x7F
DataBytes == {1, 127}
\* 0x80 0x90 0xC0 0xD0 0xE0 0xEF
VoiceBytes == {128, 144, 192, 208, 224, 239}
\* 0xF1 .. 0xF7
CommonBytes == 241 .. 247
\* 0xF8, 0xFF
RealtimeBytes == {248, 255}
\* 0xF0
SysexStart == 240
Alphabet == DataBytes \cup VoiceBytes \cup {SysexStart} \cup CommonBytes \cup RealtimeBytes

RECURSIVE SeqsUpTo(_, _)
SeqsUpTo(S, n) ==
    IF n = 0 THEN {<<>>}
    ELSE LET shorter == SeqsUpTo(S, n - 1)
         IN shorter \cup {Append(s, x) : s \in {t \in shorter : Len(t) = n - 1}, x \in S}

\* the bytes of reads longer than one byte: 01 7F 90 C0 E0 F0 F1 F6 F7 F8
PeriodBytes == {1, 127, 144, 192, 224, 240, 241, 246, 247, 248}
\* the buffers one snd_rawmidi_read can return
Chunks == {<<b>> : b \in Alphabet} \cup (SeqsUpTo(PeriodBytes, ReadBufferSize) \ {<<>>})

(***************************************************************************)
(* AlsaMidiDeviceImpl                                                       *)
(***************************************************************************)
\* state of a constructed and opened endpoint (field initialisers and Open)
NewMidiDevice ==
    [runningStatus |-> 0, dataLength |-> 0, dataIndex |-> 0,
     data0 |-> 0, data1 |-> 0,
     inputProcessingSysex |-> FALSE, inputSysexBufferCount |-> 0,
     inputSampleFrame |-> NoSampleFrame, inputEventBufferIndex |-> 0]

\* sDataLength[cc >> 4]
GetDataLength(cc) ==
    LET sDataLength == <<0, 0, 0, 0, 0, 0, 0, 0, 2, 2, 2, 2, 1, 1, 1, -1>>
    IN sDataLength[(cc \div 16) + 1]

\* sizes[(cc >> 4) & 0x07]
GetSystemCommonLength(cc) ==
    LET sizes == <<-1, 1, 2, 1, -1, -1, 0, 0>>
    IN sizes[((cc \div 16) % 8) + 1]

\* a decoding context: the endpoint, the visible part of the output vector
\* (*pInputEventBuffer)[0 .. inputEventBufferIndex), and the list of events
\* handed to MidiPut (stored or not)
NewContext(dev, outputBuffer) ==
    [dev |-> dev, out |-> outputBuffer, puts |-> <<>>]

\* mutant: no check for a full event list
MidiPut_noOverrunCheck(c, cc, d0, d1) ==
    IF cc = 0 THEN c
    ELSE LET event == [time |-> c.dev.inputSampleFrame,
                       size |-> c.dev.dataLength + 1,
                       buffer |-> <<cc, d0, d1>>]
         IN [c EXCEPT !.puts = Append(@, event),
                      !.out = Append(SubSeq(c.out, 1, c.dev.inputEventBufferIndex), event),
                      !.dev.inputEventBufferIndex = @ + 1]

MidiPut(c, cc, d0, d1) ==
    IF cc = 0 THEN c
    ELSE LET event == [time |-> c.dev.inputSampleFrame,
                       size |-> c.dev.dataLength + 1,
                       buffer |-> <<cc, d0, d1>>]
             decoded == [c EXCEPT !.puts = Append(@, event)]
         IN IF c.dev.inputEventBufferIndex >= MAX_MIDI_EVENT
            THEN decoded
            ELSE [decoded EXCEPT
                    !.out = Append(SubSeq(c.out, 1, c.dev.inputEventBufferIndex), event),
                    !.dev.inputEventBufferIndex = @ + 1]

\* mutant: the open SysEx is emitted as an event when it is flushed
FlushSysex_emit(c) ==
    IF c.dev.inputProcessingSysex
    THEN LET event == [time |-> 0, size |-> c.dev.inputSysexBufferCount,
                       buffer |-> <<240, 0, 0>>]
         IN [c EXCEPT !.dev.inputProcessingSysex = FALSE,
                      !.puts = Append(@, event),
                      !.out = Append(@, event),
                      !.dev.inputEventBufferIndex = @ + 1]
    ELSE c

FlushSysex(c) ==
    [c EXCEPT !.dev.inputProcessingSysex = FALSE]

\* the body of the loop of ProcessInputBuffer up to the completion test,
\* for a byte that is neither System Realtime nor an illegal System Common
DecodeByte(c, v) ==
    IF v >= 128
    THEN IF v >= 240
         THEN IF v = 240
              THEN [c EXCEPT !.dev.inputProcessingSysex = TRUE,
                             !.dev.inputSysexBufferCount = 1,
                             !.dev.runningStatus = 0,
                             !.dev.dataLength = -2,
                             !.dev.dataIndex = -1]
              ELSE LET f == FlushSysex(c)
                   IN [f EXCEPT !.dev.runningStatus = v,
                                !.dev.dataLength = GetSystemCommonLength(v),
                                !.dev.dataIndex = 0]
         ELSE LET f == FlushSysex(c)
                  dataLength == GetDataLength(v)
              IN [f EXCEPT !.dev.runningStatus = v,
                           !.dev.dataLength = dataLength,
                           !.dev.dataIndex = IF dataLength = -1 THEN -1 ELSE 0]
    ELSE IF c.dev.inputProcessingSysex
         THEN IF c.dev.inputSysexBufferCount # SysexBufferSize
              THEN [c EXCEPT !.dev.inputSysexBufferCount = @ + 1]
              ELSE c
         ELSE CASE c.dev.dataIndex = 0 ->
                     [c EXCEPT !.dev.data0 = v, !.dev.dataIndex = 1]
                [] c.dev.dataIndex = 1 ->
                     [c EXCEPT !.dev.data1 = v, !.dev.dataIndex = 2]
                [] OTHER -> c

\* if (dataIndex == dataLength && dataLength >= 0 && runningStatus != 0)
EmitIfComplete(c) ==
    IF /\ c.dev.dataIndex = c.dev.dataLength
       /\ c.dev.dataLength >= 0
       /\ c.dev.runningStatus # 0
    THEN LET p == MidiPut(c, c.dev.runningStatus, c.dev.data0, c.dev.data1)
         IN [p EXCEPT !.dev.dataIndex = 0]
    ELSE c

\* mutant: System Realtime bytes are not skipped but decoded like System Common
RECURSIVE ProcessInputBuffer_noRealtime(_, _, _)
ProcessInputBuffer_noRealtime(c, readBuffer, i) ==
    IF i > Len(readBuffer) THEN c
    ELSE LET v == readBuffer[i]
         IN IF v \in 241 .. 247 /\ GetSystemCommonLength(v) = -1
            THEN FlushSysex(c)
            ELSE ProcessInputBuffer_noRealtime(EmitIfComplete(DecodeByte(c, v)),
                                               readBuffer, i + 1)

RECURSIVE ProcessInputBuffer(_, _, _)
ProcessInputBuffer(c, readBuffer, i) ==
    IF i > Len(readBuffer) THEN c
    ELSE LET v == readBuffer[i]
         IN IF v >= 248
            THEN ProcessInputBuffer(c, readBuffer, i + 1)
            ELSE IF v \in 241 .. 247 /\ GetSystemCommonLength(v) = -1
            THEN FlushSysex(c)
            ELSE ProcessInputBuffer(EmitIfComplete(DecodeByte(c, v)), readBuffer, i + 1)

\* FillInputBuffer: chunks are the buffers the successive snd_rawmidi_read
\* calls return before -EAGAIN
RECURSIVE FillInputBuffer(_, _, _)
FillInputBuffer(c, chunks, k) ==
    IF k > Len(chunks) THEN c
    ELSE FillInputBuffer(ProcessInputBuffer(c, chunks[k], 1), chunks, k + 1)

ReadMidiEvents(dev, outputBuffer, startIndex, sampleFrame, chunks) ==
    LET opened == [dev EXCEPT !.inputSampleFrame = sampleFrame,
                              !.inputEventBufferIndex = startIndex]
        c == FillInputBuffer(NewContext(opened, outputBuffer), chunks, 1)
    IN [dev |-> c.dev, out |-> c.out, puts |-> c.puts,
        nRead |-> c.dev.inputEventBufferIndex - startIndex]

\* ReadMidiData: input[i] is what endpoint i has to deliver
RECURSIVE ReadMidiData(_, _, _)
ReadMidiData(m, audioFrame, i) ==
    IF i > NumMidiDevices THEN m
    ELSE LET r == ReadMidiEvents(m.midiDevices[i], m.midiEvents, m.midiEventCount,
                                 audioFrame, m.input[i])
         IN ReadMidiData([m EXCEPT !.midiDevices[i] = r.dev,
                                   !.midiEvents = r.out,
                                   !.midiEventCount = @ + r.nRead,
                                   !.puts = @ \o r.puts],
                         audioFrame, i + 1)

(***************************************************************************)
(* State                                                                    *)
(***************************************************************************)
VARIABLES
    midiDevices,      \* the AlsaMidiDeviceImpl of each endpoint
    midiEvents,       \* midiEvents[0 .. midiEventCount): the visible events
    midiEventCount,
    lastBuf,          \* history: bytes handed to the last ReadMidiData
    lastPut,          \* history: events the last drain of the MIDI path decoded
    tape,             \* history: the byte stream an endpoint will deliver
    tapePos,          \* history: number of bytes of the tape delivered
    emitted,          \* history: events decoded since the endpoint was opened
    pc,               \* the statement the audio thread is at
    terminateAudio_,
    framesToRead,     \* locals of AudioThread
    framesRead,
    rbBuffer,         \* ReadBuffer: buffer, as a frame offset into rawCaptureBuffer
    rbFrames,         \* ReadBuffer: frames
    wbBuf,            \* WriteBuffer: buf, as a frame offset into rawPlaybackBuffer
    wbFrames,         \* WriteBuffer: frames
    err,              \* the error code handed to the recovery function
    rawCaptureBuffer,
    captureBuffers,
    playbackBuffers,
    rawPlaybackBuffer,
    midiQueue,        \* bytes waiting in each raw MIDI endpoint
    capConsumed,      \* history: frames taken from capture in this period
    playWritten,      \* history: the frames given to playback in this period
    periodLog,        \* history: the steps of this period, in order
    periodPuts,       \* history: the events decoded in this period, in order
    underruns,        \* history: OnUnderrun calls in this period
    recoverLog,       \* history: the device calls of the last recovery, in order
    notices,          \* history: lifecycle notices given to the host, in order
    eventsSeen,       \* history: an OnProcess call has seen the current event list
    ctl,              \* where the control thread is in Deactivate
    fillPc,           \* FillOutputBuffer: the statement it is at
    retry,            \* FillOutputBuffer: retry
    avail,            \* FillOutputBuffer: the last result of snd_pcm_avail
    fillFrames,       \* FillOutputBuffer: frames WriteBuffer has still to write
    queued,           \* frames in the ring buffer of the playback endpoint
    availFailures,    \* history: snd_pcm_avail calls of this FillOutputBuffer that failed
    open,
    activated,
    audioThread,      \* TRUE when the audioThread pointer is not null
    threads,          \* audio threads that were spawned and have not returned
    handles,          \* which PCM handles and parameter blocks are not null
    osOpen,           \* the PCM handles and parameter blocks the library holds
    midiList,         \* the endpoints in the driver's midiDevices vector
    rawmidi,          \* the number of raw MIDI handles the library holds open
    bufferLists,      \* the planar buffer lists that are not empty
    closedTwice,      \* history: a handle was closed that was no longer held
    call,             \* the control-plane call that waits in join, or "none"
    lastCall,         \* history: the last control-plane call made
    thrown,           \* history: what the last control-plane call threw, or ""
    nativeBig,        \* std::endian::native == std::endian::big
    accepts,          \* the formats snd_pcm_hw_params_set_format accepts
    streamType,       \* the stream whose format was negotiated, or ""
    format,           \* the format set in hwParams, or "unset"
    formatThrown,     \* what the negotiation threw, or ""
    codecPc,          \* TestFormatEncodeDecode: the statement it is at
    codecFormat,      \* the format the copy functions were prepared for
    testValue,        \* playbackBuffers[c][i], in quanta
    rawSample,        \* the bytes of the sample in the raw buffer
    captured,         \* captureBuffers[c][i], in quanta
    closer,           \* where each thread that calls Close is in it
    joins,            \* history: audioThread->join() calls that returned
    touched,          \* history: the callers of Close that went on to shut down
    captureChannels,
    playbackChannels,
    stored,           \* history: the samples a playback copy function stored, in order
    channelSelection, \* the input and output audio ports of the selection
    activeCaptureBuffers,  \* per entry: <<n>>, the buffer of channel n, or nullptr
    activePlaybackBuffers,
    mutex,            \* PiPedalModel::mutex: the thread that owns it, and how often
    modelPc,          \* per control thread: its stack of calls into the model
    audioHost,        \* the audio host of the model: open or not, on which driver
    cards,            \* environment: per sound card its name, what the last
                      \* enumeration met, and whether a probe of it ever succeeded
    cachedDevices,    \* PiPedalAlsaDevices::cachedDevices: name -> device info
    result            \* the vector the last GetAlsaDevices returned

midiVars == <<midiDevices, midiEvents, midiEventCount>>
histVars == <<lastBuf, lastPut, tape, tapePos, emitted>>
threadVars == <<pc, terminateAudio_, framesToRead, framesRead, rbBuffer, rbFrames,
                wbBuf, wbFrames, err>>
bufferVars == <<rawCaptureBuffer, captureBuffers, playbackBuffers, rawPlaybackBuffer>>
periodVars == <<capConsumed, playWritten, periodLog, periodPuts>>
hostVars == <<underruns, recoverLog, notices, eventsSeen>>
fillVars == <<fillPc, retry, avail, fillFrames, queued, availFailures>>
resourceVars == <<handles, osOpen, midiList, rawmidi, bufferLists, closedTwice,
                  activeCaptureBuffers, activePlaybackBuffers>>
callVars == <<call, lastCall, thrown>>
lifeVars == <<open, activated, audioThread, threads, resourceVars, callVars>>
formatVars == <<nativeBig, accepts, streamType, format, formatThrown>>
codecVars == <<codecPc, codecFormat, testValue, rawSample, captured>>
closeVars == <<closer, joins, touched>>
layoutVars == <<captureChannels, playbackChannels, stored>>
modelVars == <<mutex, modelPc, audioHost>>
probeVars == <<cards, cachedDevices, result>>
extraVars == <<layoutVars, channelSelection, modelVars, probeVars>>
setupVars == <<formatVars, codecVars, closeVars, extraVars>>
restVars == <<lifeVars, setupVars>>
audioVars == <<threadVars, bufferVars, midiQueue, periodVars, hostVars, ctl, fillVars,
               restVars>>
vars == <<midiVars, histVars, audioVars>>

(***************************************************************************)
(* Frames are modelled by where they come from, not by their sample values: *)
(* a frame of a buffer is Zero (cleared memory), Cur (captured, or produced *)
(* by OnProcess, in the current period) or Old (the same in an earlier      *)
(* period).                                                                 *)
(***************************************************************************)
Zero == "zero"
Old == "old"
Cur == "cur"
Frames == 1 .. BufferSize
ZeroBuffer == [j \in Frames |-> Zero]
Age(buffer) == [j \in Frames |-> IF buffer[j] = Cur THEN Old ELSE buffer[j]]

\* the PCM handles and parameter blocks of the driver
HandleNames ==
    {"playbackHandle", "captureHandle", "captureHwParams", "captureSwParams",
     "playbackHwParams", "playbackSwParams"}

\* the planar buffer lists of the driver
BufferListNames == {"captureBuffers", "playbackBuffers"}

\* the driver as constructed: closed, not activated, every handle null
LifeFresh ==
    /\ open = FALSE
    /\ activated = FALSE
    /\ audioThread = FALSE
    /\ threads = 0
    /\ handles = [n \in HandleNames |-> FALSE]
    /\ osOpen = {}
    /\ midiList = {}
    /\ rawmidi = 0
    /\ bufferLists = {}
    /\ closedTwice = FALSE
    /\ activeCaptureBuffers = <<>>
    /\ activePlaybackBuffers = <<>>
    /\ call = "none"
    /\ lastCall = "none"
    /\ thrown = ""

\* the driver after an Open that succeeded with every endpoint and an
\* Activate: the state the audio thread starts in
LifeRunning ==
    /\ open = TRUE
    /\ activated = TRUE
    /\ audioThread = TRUE
    /\ threads = 1
    /\ handles = [n \in HandleNames |-> TRUE]
    /\ osOpen = HandleNames
    /\ midiList = MidiDevs
    /\ rawmidi = NumMidiDevices
    /\ bufferLists = BufferListNames
    /\ closedTwice = FALSE
    /\ activeCaptureBuffers = <<>>
    /\ activePlaybackBuffers = <<>>
    /\ call = "none"
    /\ lastCall = "Activate"
    /\ thrown = ""

\* the driver after an Open that succeeded with every endpoint
LifeOpened ==
    /\ open = TRUE
    /\ activated = FALSE
    /\ audioThread = FALSE
    /\ threads = 0
    /\ handles = [n \in HandleNames |-> TRUE]
    /\ osOpen = HandleNames
    /\ midiList = MidiDevs
    /\ rawmidi = NumMidiDevices
    /\ bufferLists = BufferListNames
    /\ closedTwice = FALSE
    /\ activeCaptureBuffers = <<>>
    /\ activePlaybackBuffers = <<>>
    /\ call = "none"
    /\ lastCall = "Open"
    /\ thrown = ""

\* no format negotiation is in progress
FormatIdle ==
    /\ nativeBig = FALSE
    /\ accepts = {}
    /\ streamType = ""
    /\ format = "unset"
    /\ formatThrown = ""

\* no sample is being copied
CodecIdle ==
    /\ codecPc = "idle"
    /\ codecFormat = ""
    /\ testValue = 0
    /\ rawSample = <<>>
    /\ captured = 0

\* the threads that call Close concurrently
Closers == 1 .. NumClosers

\* no thread is in Close
CloseIdle ==
    /\ closer = [c \in Closers |-> [at |-> "idle", k |-> 0]]
    /\ joins = 0
    /\ touched = {}

\* int playbackChannels = 0; int captureChannels = 0; no copy function has run
LayoutIdle ==
    /\ captureChannels = 0
    /\ playbackChannels = 0
    /\ stored = <<>>

\* JackChannelSelection channelSelection of a constructed driver: no ports
NoSelection == [inputAudioPorts |-> <<>>, outputAudioPorts |-> <<>>]

\* control threads that call into the model
Callers == 1 .. NumCallers

\* a recursive mutex that no thread owns
NotOwned == [owner |-> 0, count |-> 0]

\* the model before Load: no call is in progress, the audio host is closed
ModelIdle ==
    /\ mutex = NotOwned
    /\ modelPc = [t \in Callers |-> <<>>]
    /\ audioHost = [open |-> FALSE, dummy |-> FALSE]

\* a std::map without entries
EmptyMap == [n \in {} |-> n]

\* no sound card has been enumerated
ProbeIdle ==
    /\ cards = <<>>
    /\ cachedDevices = EmptyMap
    /\ result = <<>>

ExtraIdle == LayoutIdle /\ channelSelection = NoSelection /\ ModelIdle /\ ProbeIdle

\* the parts of the driver that are used before the audio thread starts
RestIdle == FormatIdle /\ CodecIdle /\ CloseIdle /\ ExtraIdle

\* the state of the driver when Activate has spawned the audio thread
AudioInit ==
    /\ LifeRunning
    /\ RestIdle
    /\ pc = "AudioThread"
    /\ terminateAudio_ = FALSE
    /\ framesToRead = 0
    /\ framesRead = 0
    /\ rbBuffer = 0
    /\ rbFrames = 0
    /\ wbBuf = 0
    /\ wbFrames = 0
    /\ err = 0
    /\ rawCaptureBuffer = ZeroBuffer
    /\ captureBuffers = ZeroBuffer
    /\ playbackBuffers = ZeroBuffer
    /\ rawPlaybackBuffer = ZeroBuffer
    /\ midiQueue = [i \in MidiDevs |-> <<>>]
    /\ capConsumed = 0
    /\ playWritten = <<>>
    /\ periodLog = <<>>
    /\ periodPuts = <<>>
    /\ underruns = 0
    /\ recoverLog = <<>>
    /\ notices = <<>>
    /\ eventsSeen = FALSE
    /\ ctl = "idle"

\* the bytes of an event that are within its size
EventBytes(e) == SubSeq(e.buffer, 1, e.size)
EventsBytes(es) == [k \in 1 .. Len(es) |-> EventBytes(es[k])]

(***************************************************************************)
(* Byte streams ("tapes") an endpoint delivers from the moment it is        *)
(* opened.  A tape is cut into reads at arbitrary places.                   *)
(***************************************************************************)
\* 80 01 02 03 04 05 | 06 C0 01 02
Example1 == <<128, 1, 2, 3, 4, 5, 6, 192, 1, 2>>
\* 90 F8 3C FA 7F
Example2 == <<144, 248, 60, 250, 127>>
\* F0 76 3B | 77 F7 90 40 50
Example3 == <<240, 118, 59, 119, 247, 144, 64, 80>>

\* a Voice status followed by data bytes only
RunningTapes ==
    {<<s>> \o ds : s \in VoiceBytes, ds \in SeqsUpTo(DataBytes, MaxTapeData)}
\* a SysEx closed by F7 and followed by the Voice message 90 40 50
SysexTapes ==
    {<<240>> \o ds \o <<247, 144, 64, 80>> : ds \in SeqsUpTo(DataBytes, MaxTapeData - 1)}
InsertAt(t, k, b) == SubSeq(t, 1, k) \o <<b>> \o SubSeq(t, k + 1, Len(t))
\* the same with one System Realtime byte inserted anywhere
RealtimeTapes ==
    UNION {{InsertAt(t, k, b) : k \in 0 .. Len(t), b \in RealtimeBytes} :
              t \in {u \in RunningTapes \cup SysexTapes : Len(u) <= MaxTapeData + 2}}
\* data bytes of a Voice status: 2 for 8x 9x Ax Bx Ex, 1 for Cx Dx
VoiceDataBytes(b) == IF (b \div 16) \in {12, 13} THEN 1 ELSE 2
\* a message cut short: a Voice status with fewer data bytes than it takes,
\* or a SysEx that is still open
Abandoned ==
    UNION {{<<s>> \o ds : ds \in SeqsUpTo(DataBytes, VoiceDataBytes(s) - 1)} :
              s \in VoiceBytes}
        \cup {<<SysexStart>> \o ds : ds \in SeqsUpTo(DataBytes, MaxTapeData - 2)}
\* a message cut short by a Voice status that is followed by data bytes
MalformedTapes ==
    {a \o <<v>> \o ds : a \in Abandoned, v \in VoiceBytes,
                         ds \in SeqsUpTo(DataBytes, MaxTapeData - 2)}
Tapes == RunningTapes \cup SysexTapes \cup RealtimeTapes \cup MalformedTapes
            \cup {Example1, Example2, Example3}

\* the reads FillInputBuffer makes to take bytes out of the endpoint
RECURSIVE Split(_, _)
Split(bytes, n) ==
    IF Len(bytes) = 0 THEN <<>>
    ELSE IF Len(bytes) <= n THEN <<bytes>>
    ELSE <<SubSeq(bytes, 1, n)>> \o Split(SubSeq(bytes, n + 1, Len(bytes)), n)

(***************************************************************************)
(* The MIDI path of one period on its own: the event count is reset         *)
(* (AudioThread) and ReadMidiData drains the endpoints; endpoint 1 delivers *)
(* the given reads, the others deliver nothing.                             *)
(***************************************************************************)
MidiPeriodResult(chunks) ==
    ReadMidiData([midiDevices |-> midiDevices, midiEvents |-> <<>>,
                  midiEventCount |-> 0, puts |-> <<>>,
                  input |-> [i \in MidiDevs |-> IF i = 1 THEN chunks ELSE <<>>]],
                 0, 1)

\* the MIDI endpoints as they are when they have been opened
MidiFresh ==
    /\ midiDevices = [i \in MidiDevs |-> NewMidiDevice]
    /\ midiEvents = <<>>
    /\ midiEventCount = 0
    /\ lastBuf = <<>>
    /\ lastPut = <<>>
    /\ tapePos = 0
    /\ emitted = <<>>

\* no FillOutputBuffer call is in progress
FillIdle ==
    /\ fillPc = "idle"
    /\ retry = 0
    /\ avail = 0
    /\ fillFrames = 0
    /\ queued = 0
    /\ availFailures = 0

MidiInit ==
    /\ MidiFresh
    /\ tape \in Tapes \cup {<<>>}
    /\ AudioInit
    /\ FillIdle

\* free running: any single read, from any decoder state (tape = <<>>)
MidiPeriod ==
    /\ tape = <<>>
    /\ \E buf \in Chunks :
        LET m == MidiPeriodResult(<<buf>>)
        IN /\ midiDevices' = m.midiDevices
           /\ midiEvents' = m.midiEvents
           /\ midiEventCount' = m.midiEventCount
           /\ lastBuf' = buf
           /\ lastPut' = m.puts
           /\ UNCHANGED <<tape, tapePos, emitted, audioVars>>

\* the next n bytes of the tape are drained in one period
TapeFeed ==
    /\ tape # <<>>
    /\ \E n \in 1 .. (Len(tape) - tapePos) :
        LET buf == SubSeq(tape, tapePos + 1, tapePos + n)
            m == MidiPeriodResult(Split(buf, ReadBufferSize))
        IN /\ midiDevices' = m.midiDevices
           /\ midiEvents' = m.midiEvents
           /\ midiEventCount' = m.midiEventCount
           /\ lastBuf' = buf
           /\ lastPut' = m.puts
           /\ tapePos' = tapePos + n
           /\ emitted' = emitted \o m.puts
           /\ UNCHANGED <<tape, audioVars>>

MidiNext == MidiPeriod \/ TapeFeed

SpecMidi == MidiInit /\ [][MidiNext]_vars

(***************************************************************************)
(* AlsaDriverImpl::AudioThread, one action per statement that calls the     *)
(* device or the host.  The device decides what snd_pcm_readi,              *)
(* snd_pcm_writei and the recovery calls return.  The driver is open and    *)
(* activated; the control plane calls Deactivate once.                      *)
(***************************************************************************)
\* the message the MIDI endpoints receive while the audio thread runs: C0 01
AudioMidiMessage == <<192, 1>>
\* what snd_pcm_readi can return for a request of n frames
ReadiResults(n) == (0 .. n) \cup {-EPIPE, -ESTRPIPE, -EIO}
\* what snd_pcm_writei can return for a request of n frames
WriteiResults(n) == (0 .. n) \cup {-EAGAIN, -EPIPE, -EIO}

Log(step) == periodLog' = Append(periodLog, step)

\* the statements of the realtime loop
LoopPcs == {"loop", "ReadMidiData", "ReadBuffer", "snd_pcm_wait",
            "recover_from_input_underrun", "copyInputFn", "OnProcess",
            "copyOutputFn", "WriteBuffer", "recover_from_output_underrun"}

\* the device calls of recover_from_input_underrun for -EPIPE, in order
InputRecoverySteps ==
    <<"unlink", "drop capture", "drop playback", "prepare playback",
      "prepare capture", "FillOutputBuffer", "link", "start capture">>
\* the device calls of recover_from_output_underrun for -EPIPE, in order
OutputRecoverySteps == <<"prepare playback", "FillOutputBuffer">>
\* the calls whose result the code does not look at
Unchecked == {"unlink"}
\* whether the code goes on after the call with this result
GoesOn(entry) == entry.ok \/ entry.step \in Unchecked

\* the calls made when the device answers results[k] to the k-th call: the
\* first call that fails and whose result is checked throws
RECURSIVE Performed(_, _, _)
Performed(steps, results, k) ==
    IF k > Len(steps) THEN <<>>
    ELSE LET entry == [step |-> steps[k], ok |-> results[k]]
         IN IF GoesOn(entry) THEN <<entry>> \o Performed(steps, results, k + 1)
            ELSE <<entry>>
\* the recovery has returned without throwing
Recovered(log, steps) == Len(log) = Len(steps) /\ GoesOn(log[Len(log)])
\* FillOutputBuffer clears rawPlaybackBuffer before anything else
AfterFill(log, buffer) ==
    IF \E k \in 1 .. Len(log) : log[k].step = "FillOutputBuffer"
    THEN ZeroBuffer ELSE buffer

\* mutant: the host is notified twice
OnUnderrun_twice == underruns' = underruns + 2

\* driverHost->OnUnderrun()
OnUnderrun == underruns' = underruns + 1

\* FillOutputBuffer(); snd_pcm_start(captureHandle)
AudioThreadStart ==
    /\ pc = "AudioThread"
    /\ rawPlaybackBuffer' = ZeroBuffer
    /\ \E ok \in BOOLEAN : pc' = IF ok THEN "loop" ELSE "OnAudioStopped"
    /\ UNCHANGED <<midiVars, histVars, terminateAudio_, framesToRead, framesRead,
                   rbBuffer, rbFrames, wbBuf, wbFrames, err, rawCaptureBuffer,
                   captureBuffers, playbackBuffers, midiQueue, periodVars, hostVars, ctl, fillVars, restVars>>

\* while (true) { if (terminateAudio()) break; midiEventCount = 0; ...
LoopTop ==
    /\ pc = "loop"
    /\ IF terminateAudio_
       THEN /\ pc' = "OnAudioStopped"
            /\ UNCHANGED <<midiVars, framesToRead, framesRead, bufferVars, periodVars,
                           underruns, eventsSeen>>
       ELSE /\ midiEventCount' = 0
            /\ midiEvents' = <<>>
            /\ framesToRead' = BufferSize
            /\ framesRead' = 0
            /\ pc' = IF BufferSize # 0 THEN "ReadMidiData" ELSE "loop"
            /\ rawCaptureBuffer' = Age(rawCaptureBuffer)
            /\ captureBuffers' = Age(captureBuffers)
            /\ playbackBuffers' = Age(playbackBuffers)
            /\ rawPlaybackBuffer' = Age(rawPlaybackBuffer)
            /\ capConsumed' = 0
            /\ playWritten' = <<>>
            /\ periodLog' = <<"reset">>
            /\ periodPuts' = <<>>
            /\ underruns' = 0
            /\ eventsSeen' = FALSE
            /\ UNCHANGED midiDevices
    /\ recoverLog' = <<>>
    /\ UNCHANGED <<histVars, terminateAudio_, rbBuffer, rbFrames, wbBuf, wbFrames,
                   err, midiQueue, notices, ctl, fillVars, restVars>>

\* ReadMidiData((uint32_t)framesRead), then the call of ReadBuffer
DrainMidi ==
    /\ pc = "ReadMidiData"
    /\ \/ \* snd_rawmidi_read fails: checkError throws
          /\ pc' = "OnAudioStopped"
          /\ UNCHANGED <<midiVars, midiQueue, rbBuffer, rbFrames, periodLog,
                         periodPuts>>
       \/ LET m == ReadMidiData(
                     [midiDevices |-> midiDevices, midiEvents |-> midiEvents,
                      midiEventCount |-> midiEventCount, puts |-> <<>>,
                      input |-> [i \in MidiDevs |-> Split(midiQueue[i], ReadBufferSize)]],
                     framesRead, 1)
          IN /\ midiDevices' = m.midiDevices
             /\ midiEvents' = m.midiEvents
             /\ midiEventCount' = m.midiEventCount
             /\ midiQueue' = [i \in MidiDevs |-> <<>>]
             /\ rbBuffer' = framesRead
             /\ rbFrames' = framesToRead
             /\ pc' = "ReadBuffer"
             /\ Log("midi")
             /\ periodPuts' = periodPuts \o m.puts
    /\ UNCHANGED <<histVars, terminateAudio_, framesToRead,
                   framesRead, wbBuf, wbFrames, err, bufferVars, capConsumed, playWritten,
                   hostVars, ctl, fillVars, restVars>>

\* where AudioThread goes when ReadBuffer has returned nFrames >= 0
AfterRead(toRead, read) ==
    IF toRead # 0 THEN "ReadMidiData"
    ELSE IF read = 0 THEN "loop"
    ELSE IF read # BufferSize THEN "OnAudioStopped"
    ELSE "copyInputFn"

\* one snd_pcm_readi of ReadBuffer; ReadBuffer returns when frames reaches 0
\* or the device reports an error, and it returns the result of the last read.
\* Its parameters are gone (0) once it has returned.  When no frame was read
\* it calls snd_pcm_wait and reads again.
Readi ==
    /\ pc = "ReadBuffer"
    /\ \E r \in ReadiResults(rbFrames) :
        IF r < 0
        THEN /\ err' = r
             /\ pc' = "recover_from_input_underrun"
             /\ rbBuffer' = 0
             /\ rbFrames' = 0
             /\ UNCHANGED <<framesToRead, framesRead, rawCaptureBuffer, capConsumed,
                            periodLog>>
        ELSE /\ rawCaptureBuffer' =
                    [j \in Frames |-> IF j \in (rbBuffer + 1) .. (rbBuffer + r)
                                      THEN Cur ELSE rawCaptureBuffer[j]]
             /\ capConsumed' = capConsumed + r
             /\ IF rbFrames - r > 0
                THEN /\ rbBuffer' = rbBuffer + r
                     /\ rbFrames' = rbFrames - r
                     /\ pc' = IF r = 0 THEN "snd_pcm_wait" ELSE pc
                     /\ UNCHANGED <<framesToRead, framesRead, periodLog>>
                ELSE /\ rbBuffer' = 0
                     /\ rbFrames' = 0
                     /\ framesRead' = framesRead + r
                     /\ framesToRead' = framesToRead - r
                     /\ pc' = AfterRead(framesToRead - r, framesRead + r)
                     /\ Log("read")
             /\ err' = err
    /\ UNCHANGED <<midiVars, histVars, terminateAudio_, wbBuf, wbFrames,
                   captureBuffers, playbackBuffers, rawPlaybackBuffer, midiQueue,
                   playWritten, periodPuts, hostVars, ctl, fillVars, restVars>>

\* snd_pcm_wait(captureHandle, 1) in ReadBuffer, then the next snd_pcm_readi
PcmWait ==
    /\ pc = "snd_pcm_wait"
    /\ pc' = "ReadBuffer"
    /\ UNCHANGED <<midiVars, histVars, terminateAudio_, framesToRead, framesRead,
                   rbBuffer, rbFrames, wbBuf, wbFrames, err, bufferVars, midiQueue,
                   periodVars, hostVars, ctl, fillVars, restVars>>

\* driverHost->OnUnderrun(); recover_from_input_underrun(..., nFrames); continue
RecoverFromInputUnderrun ==
    /\ pc = "recover_from_input_underrun"
    /\ OnUnderrun
    /\ IF err = -EPIPE
       THEN \E results \in [1 .. Len(InputRecoverySteps) -> BOOLEAN] :
               LET log == Performed(InputRecoverySteps, results, 1)
               IN /\ recoverLog' = log
                  /\ rawPlaybackBuffer' = AfterFill(log, rawPlaybackBuffer)
                  /\ pc' = IF Recovered(log, InputRecoverySteps)
                           THEN "loop" ELSE "OnAudioStopped"
       ELSE IF err = ESTRPIPE
       THEN \E resumed \in BOOLEAN, prepared \in BOOLEAN :
               /\ recoverLog' =
                     IF resumed THEN <<[step |-> "resume", ok |-> TRUE]>>
                     ELSE <<[step |-> "resume", ok |-> FALSE],
                            [step |-> "prepare capture", ok |-> prepared]>>
               /\ pc' = IF resumed \/ prepared THEN "loop" ELSE "OnAudioStopped"
               /\ UNCHANGED rawPlaybackBuffer
       ELSE /\ recoverLog' = <<>>
            /\ pc' = "OnAudioStopped"
            /\ UNCHANGED rawPlaybackBuffer
    /\ err' = 0
    /\ UNCHANGED <<midiVars, histVars, terminateAudio_, framesToRead, framesRead,
                   rbBuffer, rbFrames, wbBuf, wbFrames, rawCaptureBuffer,
                   captureBuffers, playbackBuffers, midiQueue, periodVars,
                   notices, eventsSeen, ctl, fillVars, restVars>>

\* (this->*copyInputFn)(framesRead)
CopyInput ==
    /\ pc = "copyInputFn"
    /\ captureBuffers' = rawCaptureBuffer
    /\ pc' = "OnProcess"
    /\ Log("decode")
    /\ UNCHANGED <<midiVars, histVars, terminateAudio_, framesToRead, framesRead,
                   rbBuffer, rbFrames, wbBuf, wbFrames, err, rawCaptureBuffer,
                   playbackBuffers, rawPlaybackBuffer, midiQueue, capConsumed, playWritten,
                   periodPuts, hostVars, ctl, fillVars, restVars>>

\* driverHost->OnProcess(framesRead): the host fills the playback buffers and
\* can look at the event list
OnProcess ==
    /\ pc = "OnProcess"
    /\ playbackBuffers' = [j \in Frames |-> Cur]
    /\ eventsSeen' = (midiEventCount > 0)
    /\ pc' = "copyOutputFn"
    /\ Log("process")
    /\ UNCHANGED <<midiVars, histVars, terminateAudio_, framesToRead, framesRead,
                   rbBuffer, rbFrames, wbBuf, wbFrames, err, rawCaptureBuffer,
                   captureBuffers, rawPlaybackBuffer, midiQueue, capConsumed, playWritten,
                   periodPuts, underruns, recoverLog, notices, ctl, fillVars, restVars>>

\* (this->*copyOutputFn)(framesRead), then the call of WriteBuffer
CopyOutput ==
    /\ pc = "copyOutputFn"
    /\ rawPlaybackBuffer' = playbackBuffers
    /\ wbBuf' = 0
    /\ wbFrames' = framesRead
    /\ pc' = "WriteBuffer"
    /\ Log("encode")
    /\ UNCHANGED <<midiVars, histVars, terminateAudio_, framesToRead, framesRead,
                   rbBuffer, rbFrames, err, rawCaptureBuffer, captureBuffers,
                   playbackBuffers, midiQueue, capConsumed, playWritten, periodPuts,
                   hostVars, ctl, fillVars, restVars>>

\* one snd_pcm_writei of WriteBuffer; its parameters are gone (0) once it has
\* returned
Writei ==
    /\ pc = "WriteBuffer"
    /\ \E r \in WriteiResults(wbFrames) :
        IF r = -EAGAIN
        THEN UNCHANGED <<pc, wbBuf, wbFrames, err, playWritten, periodLog>>
        ELSE IF r < 0
        THEN /\ err' = r
             /\ pc' = "recover_from_output_underrun"
             /\ wbBuf' = 0
             /\ wbFrames' = 0
             /\ UNCHANGED <<playWritten, periodLog>>
        ELSE /\ playWritten' = playWritten \o SubSeq(rawPlaybackBuffer, wbBuf + 1, wbBuf + r)
             /\ IF wbFrames - r > 0
                THEN /\ wbBuf' = wbBuf + r
                     /\ wbFrames' = wbFrames - r
                     /\ UNCHANGED <<pc, periodLog>>
                ELSE /\ wbBuf' = 0
                     /\ wbFrames' = 0
                     /\ pc' = "loop"
                     /\ Log("write")
             /\ err' = err
    /\ UNCHANGED <<midiVars, histVars, terminateAudio_, framesToRead, framesRead,
                   rbBuffer, rbFrames, bufferVars, midiQueue, capConsumed, periodPuts,
                   hostVars, ctl, fillVars, restVars>>

\* driverHost->OnUnderrun(); recover_from_output_underrun(..., err)
RecoverFromOutputUnderrun ==
    /\ pc = "recover_from_output_underrun"
    /\ OnUnderrun
    /\ IF err = -EPIPE
       THEN \E results \in [1 .. Len(OutputRecoverySteps) -> BOOLEAN] :
               LET log == Performed(OutputRecoverySteps, results, 1)
               IN /\ recoverLog' = log
                  /\ rawPlaybackBuffer' = AfterFill(log, rawPlaybackBuffer)
                  /\ pc' = IF Recovered(log, OutputRecoverySteps)
                           THEN "loop" ELSE "OnAudioStopped"
       ELSE /\ recoverLog' = <<>>
            /\ pc' = "OnAudioStopped"
            /\ UNCHANGED rawPlaybackBuffer
    /\ err' = 0
    /\ UNCHANGED <<midiVars, histVars, terminateAudio_, framesToRead, framesRead,
                   rbBuffer, rbFrames, wbBuf, wbFrames, rawCaptureBuffer,
                   captureBuffers, playbackBuffers, midiQueue, periodVars,
                   notices, eventsSeen, ctl, fillVars, restVars>>

\* mutant: the silence loop is left out
AfterStopped_noPump(terminate) == "OnAudioTerminated"

\* where AudioThread goes after OnAudioStopped: if (!terminateAudio()) { ... }
AfterStopped(terminate) == IF terminate THEN "OnAudioTerminated" ELSE "pump"

\* mutant: the capture buffers are left as they are
PumpCaptureBuffers_kept(buffers) == buffers

\* the capture buffers of the silence loop: pBuffer[j] = 0 for every frame
PumpCaptureBuffers(buffers) == ZeroBuffer

\* driverHost->OnAudioStopped(); the capture buffers are zeroed when the loop
\* was not left by a terminate request
AudioStopped ==
    /\ pc = "OnAudioStopped"
    /\ notices' = Append(notices, "OnAudioStopped")
    /\ IF ~terminateAudio_
       THEN captureBuffers' = PumpCaptureBuffers(captureBuffers)
       ELSE UNCHANGED captureBuffers
    /\ pc' = AfterStopped(terminateAudio_)
    /\ recoverLog' = <<>>
    /\ UNCHANGED <<midiVars, histVars, terminateAudio_, framesToRead, framesRead,
                   rbBuffer, rbFrames, wbBuf, wbFrames, err, rawCaptureBuffer,
                   playbackBuffers, rawPlaybackBuffer, midiQueue, periodVars,
                   underruns, eventsSeen, ctl, fillVars, restVars>>

\* the test of while (!terminateAudio()) in the silence loop
Pump ==
    /\ pc = "pump"
    /\ pc' = IF terminateAudio_ THEN "OnAudioTerminated" ELSE "pumpOnProcess"
    /\ UNCHANGED <<midiVars, histVars, terminateAudio_, framesToRead, framesRead,
                   rbBuffer, rbFrames, wbBuf, wbFrames, err, bufferVars, midiQueue,
                   periodVars, hostVars, ctl, fillVars, restVars>>

\* the body of the silence loop: sleep 10 ms; driverHost->OnProcess(bufferSize).
\* midiEventCount is not touched, so the host sees the event list the
\* realtime loop left behind.
PumpOnProcess ==
    /\ pc = "pumpOnProcess"
    /\ pc' = "pump"
    /\ playbackBuffers' = [j \in Frames |-> Cur]
    /\ eventsSeen' = (eventsSeen \/ midiEventCount > 0)
    /\ UNCHANGED <<midiVars, histVars, terminateAudio_, framesToRead, framesRead,
                   rbBuffer, rbFrames, wbBuf, wbFrames, err, rawCaptureBuffer,
                   captureBuffers, rawPlaybackBuffer, midiQueue, periodVars,
                   underruns, recoverLog, notices, ctl, fillVars, restVars>>

\* driverHost->OnAudioTerminated(); the thread function returns
AudioTerminated ==
    /\ pc = "OnAudioTerminated"
    /\ notices' = Append(notices, "OnAudioTerminated")
    /\ pc' = "done"
    /\ threads' = threads - 1
    /\ UNCHANGED <<midiVars, histVars, terminateAudio_, framesToRead, framesRead,
                   rbBuffer, rbFrames, wbBuf, wbFrames, err, bufferVars, midiQueue,
                   periodVars, underruns, recoverLog, eventsSeen, ctl, fillVars, setupVars,
                   open, activated, audioThread, resourceVars, callVars>>

\* Deactivate on the control thread: terminateAudio(true), then the join
Terminate ==
    /\ ctl = "idle"
    /\ pc # "done"
    /\ ~terminateAudio_
    /\ activated' = FALSE
    /\ terminateAudio_' = TRUE
    /\ ctl' = "join"
    /\ UNCHANGED <<midiVars, histVars, pc, framesToRead, framesRead, rbBuffer,
                   rbFrames, wbBuf, wbFrames, err, bufferVars, midiQueue, periodVars,
                   hostVars, fillVars, setupVars, open, audioThread, threads, resourceVars,
                   callVars>>

\* audioThread->join() returns when the thread function has returned, and
\* Deactivate returns
DeactivateReturn ==
    /\ ctl = "join"
    /\ pc = "done"
    /\ ctl' = "returned"
    /\ audioThread' = FALSE
    /\ UNCHANGED <<midiVars, histVars, threadVars, bufferVars, midiQueue, periodVars,
                   hostVars, fillVars, setupVars, open, activated, threads, resourceVars,
                   callVars>>

\* a message arrives at a raw MIDI endpoint.  The thread looks at the
\* endpoints only in ReadMidiData, so a message that arrives at any time since
\* the last drain is modelled as arriving just before the next one; bytes
\* that arrive after the realtime loop has been left are never read.
MidiArrive ==
    /\ pc = "ReadMidiData"
    /\ \E i \in MidiDevs :
        /\ Len(midiQueue[i]) < MaxQueue * Len(AudioMidiMessage)
        /\ midiQueue' = [midiQueue EXCEPT ![i] = @ \o AudioMidiMessage]
    /\ UNCHANGED <<midiVars, histVars, threadVars, bufferVars, periodVars, hostVars, ctl, fillVars, restVars>>

Init == MidiInit /\ tape = <<>>

\* the steps of the audio thread
ThreadNext ==
    \/ AudioThreadStart
    \/ LoopTop
    \/ DrainMidi
    \/ Readi
    \/ PcmWait
    \/ RecoverFromInputUnderrun
    \/ CopyInput
    \/ OnProcess
    \/ CopyOutput
    \/ Writei
    \/ RecoverFromOutputUnderrun
    \/ AudioStopped
    \/ Pump
    \/ PumpOnProcess
    \/ AudioTerminated

Next ==
    \/ ThreadNext
    \/ Terminate
    \/ DeactivateReturn
    \/ MidiArrive

Spec == Init /\ [][Next]_vars

\* the audio thread is scheduled: it is not held back for ever at a step it
\* can take
FairSpec == Spec /\ WF_vars(ThreadNext)

(***************************************************************************)
(* The control plane: Open, Activate, Deactivate, Close.  A PCM handle or   *)
(* parameter block is modelled by whether the driver's pointer is null      *)
(* (handles) and whether the library still holds the object (osOpen); raw   *)
(* MIDI handles by the endpoints in the driver's vector (midiList) and the  *)
(* number of handles the library holds open (rawmidi).                      *)
(***************************************************************************)
\* the steps of OpenAudio that can throw, in order
OpenAudioSteps ==
    <<"playbackHandle", "captureHandle", "captureHwParams", "captureSwParams",
      "playbackHwParams", "playbackSwParams", "SetAlsaParameters",
      "PrepareCaptureFunctions", "PreparePlaybackFunctions">>

\* OpenAudio runs to the end
OpenAudioSucceeds == Len(OpenAudioSteps) + 1

\* the handles and blocks OpenAudio has got when it reaches step k
Acquired(k) == {OpenAudioSteps[j] : j \in 1 .. (k - 1)} \cap HandleNames

\* the buffer lists allocated when OpenAudio reaches step k:
\* PrepareCaptureFunctions and PreparePlaybackFunctions allocate last
BuffersAt(k) ==
    {b \in BufferListNames :
        \E j \in 1 .. (k - 1) :
            \/ b = "captureBuffers" /\ OpenAudioSteps[j] = "PrepareCaptureFunctions"
            \/ b = "playbackBuffers" /\ OpenAudioSteps[j] = "PreparePlaybackFunctions"}

\* what OpenAudio throws when step k fails
OpenAudioError(k) ==
    IF OpenAudioSteps[k] \in {"playbackHandle", "captureHandle"}
    THEN "opening device"
    ELSE IF OpenAudioSteps[k] \in HandleNames
    THEN "Failed to allocate " \o OpenAudioSteps[k]
    ELSE OpenAudioSteps[k]

\* AlsaMidiDeviceImpl::Open of one endpoint: it is opened; snd_rawmidi_open
\* fails; or a later call fails, and the object is destroyed with hIn open
\* (the class has no destructor).  OpenMidi logs a failure and goes on.
MidiOpenResults == {"opened", "refused", "abandoned"}

Resources ==
    [handles |-> handles, osOpen |-> osOpen, midiList |-> midiList,
     rawmidi |-> rawmidi, bufferLists |-> bufferLists, closedTwice |-> closedTwice,
     activeCaptureBuffers |-> activeCaptureBuffers,
     activePlaybackBuffers |-> activePlaybackBuffers]

SetResources(r) ==
    /\ handles' = r.handles
    /\ osOpen' = r.osOpen
    /\ midiList' = r.midiList
    /\ rawmidi' = r.rawmidi
    /\ bufferLists' = r.bufferLists
    /\ closedTwice' = r.closedTwice
    /\ activeCaptureBuffers' = r.activeCaptureBuffers
    /\ activePlaybackBuffers' = r.activePlaybackBuffers

\* OpenMidi: the endpoints that opened are pushed onto midiDevices
OpenMidi(r, midi) ==
    [r EXCEPT !.midiList = {i \in MidiDevs : midi[i] = "opened"},
              !.rawmidi = @ + Cardinality({i \in MidiDevs : midi[i] # "refused"})]

\* OpenAudio up to step k
OpenAudio(r, k) ==
    [r EXCEPT !.handles = [n \in HandleNames |-> n \in Acquired(k)],
              !.osOpen = @ \cup Acquired(k),
              !.bufferLists = BuffersAt(k)]

\* the handles AlsaCleanup closes or frees: those that are not null
Closes(h) == {n \in HandleNames : h[n]}

\* AlsaCleanup: every handle that is not null is closed or freed and set to
\* null; every endpoint of midiDevices is closed and the vector emptied
AlsaCleanup(r) ==
    [r EXCEPT !.handles = [n \in HandleNames |-> FALSE],
              !.osOpen = @ \ Closes(r.handles),
              !.closedTwice = @ \/ ~(Closes(r.handles) \subseteq r.osOpen),
              !.rawmidi = @ - Cardinality(r.midiList),
              !.midiList = {}]

\* DeleteBuffers: the active lists and the buffer lists are cleared
DeleteBuffers(r) ==
    [r EXCEPT !.bufferLists = {}, !.activeCaptureBuffers = <<>>,
              !.activePlaybackBuffers = <<>>]

\* the characters "0" .. "9"
Digits == <<"0", "1", "2", "3", "4", "5", "6", "7", "8", "9">>
DigitValue(ch) == (CHOOSE d \in 1 .. 10 : Digits[d] = ch) - 1
IsDigit(ch) == \E d \in 1 .. 10 : Digits[d] = ch

\* atoi on a string without leading white space: an optional sign and the
\* decimal digits up to the first character that is not a digit
RECURSIVE AtoiDigits(_, _, _)
AtoiDigits(str, k, v) ==
    IF k > Len(str) \/ ~IsDigit(str[k]) THEN v
    ELSE AtoiDigits(str, k + 1, 10 * v + DigitValue(str[k]))
atoi(str) ==
    IF str # <<>> /\ str[1] = "-" THEN -AtoiDigits(str, 2, 0)
    ELSE IF str # <<>> /\ str[1] = "+" THEN AtoiDigits(str, 2, 0)
    ELSE AtoiDigits(str, 1, 0)

\* IndexFromPortName, for a name that holds a '_' and no negative number
\* after it (the names for which it does not throw): the number after the
\* last '_'
IndexFromPortName(str) ==
    LET pos == CHOOSE k \in 1 .. Len(str) :
                   str[k] = "_" /\ \A j \in (k + 1) .. Len(str) : str[j] # "_"
    IN atoi(SubSeq(str, pos + 1, Len(str)))

\* an entry of an active list is <<n>>, the buffer of device channel n, or
\* the null pointer
nullptr == <<>>

\* buffers.size() of a planar buffer list
BufferCount(r, list, channels) == IF list \in r.bufferLists THEN channels ELSE 0

\* active.resize(ports.size()); ix = 0; for (x : ports) { if
\* (IndexFromPortName(x) >= buffers.size()) log; else active[ix++] =
\* buffers[sourceIndex]; }: the entries after the last one assigned keep what
\* resize left there, the old entry or a null pointer
BindPorts(active, ports, size) ==
    LET sources == [i \in 1 .. Len(ports) |-> IndexFromPortName(ports[i])]
        valid == SelectSeq(sources, LAMBDA n : n < size)
    IN [i \in 1 .. Len(ports) |->
           IF i <= Len(valid) THEN <<valid[i]>>
           ELSE IF i <= Len(active) THEN active[i]
           ELSE nullptr]

\* mutant: Activate does not look at activated
MayActivate_always(a) == TRUE

\* Activate: if (activated) throw "Already activated."
MayActivate(a) == ~a

\* mutant: Deactivate does not wait for the thread
JoinReturns_noWait(threadPc) == TRUE

\* audioThread->join() returns when the thread function has returned
JoinReturns(threadPc) == threadPc = "done"

\* Open.  Its first statement clears the terminate flag; on an open driver
\* it then throws "Already open.".  Otherwise it opens the MIDI endpoints and
\* the audio device; when OpenAudio throws at step k, OpenAudio's handler
\* calls AlsaCleanup and Open's handler calls Close, whose Deactivate waits
\* for the audio thread when the driver is activated.
Open ==
    /\ call = "none"
    /\ lastCall' = "Open"
    /\ IF open
       THEN /\ terminateAudio_' = FALSE
            /\ thrown' = "Already open."
            /\ UNCHANGED <<open, activated, resourceVars, call>>
       ELSE \E midi \in [MidiDevs -> MidiOpenResults], k \in 1 .. OpenAudioSucceeds :
              LET r0 == OpenMidi(Resources, midi)
                  r1 == OpenAudio(r0, k)
                  r2 == AlsaCleanup(r1)
              IN /\ r0.rawmidi <= MaxRawmidi
                 /\ IF k = OpenAudioSucceeds
                    THEN /\ open' = TRUE
                         /\ SetResources(r1)
                         /\ terminateAudio_' = FALSE
                         /\ thrown' = ""
                         /\ UNCHANGED <<activated, call>>
                    ELSE /\ open' = FALSE
                         /\ activated' = FALSE
                         /\ terminateAudio_' = activated
                         /\ thrown' = OpenAudioError(k)
                         /\ IF activated /\ audioThread
                            THEN call' = "Open" /\ SetResources(r2)
                            ELSE call' = "none"
                                 /\ SetResources(DeleteBuffers(AlsaCleanup(r2)))
    /\ UNCHANGED <<midiVars, histVars, pc, framesToRead, framesRead, rbBuffer,
                   rbFrames, wbBuf, wbFrames, err, bufferVars, midiQueue, periodVars,
                   hostVars, ctl, fillVars, setupVars, audioThread, threads>>

NextControl == Next \/ Open

\* the realtime loop with a control plane that also calls Open
SpecControl == Init /\ [][NextControl]_vars

\* Activate: throws on an activated driver, else spawns the audio thread.
\* It does not look at open.
Activate ==
    /\ call = "none"
    /\ lastCall' = "Activate"
    /\ IF MayActivate(activated)
       THEN /\ threads < MaxThreads
            /\ activated' = TRUE
            /\ activeCaptureBuffers' =
                  BindPorts(activeCaptureBuffers, channelSelection.inputAudioPorts,
                            BufferCount(Resources, "captureBuffers", captureChannels))
            /\ activePlaybackBuffers' =
                  BindPorts(activePlaybackBuffers, channelSelection.outputAudioPorts,
                            BufferCount(Resources, "playbackBuffers", playbackChannels))
            /\ audioThread' = TRUE
            /\ threads' = threads + 1
            /\ pc' = "AudioThread"
            /\ notices' = <<>>
            /\ thrown' = ""
       ELSE /\ thrown' = "Already activated."
            /\ UNCHANGED <<activated, audioThread, threads, pc, notices,
                           activeCaptureBuffers, activePlaybackBuffers>>
    /\ UNCHANGED <<midiVars, histVars, terminateAudio_, framesToRead, framesRead,
                   rbBuffer, rbFrames, wbBuf, wbFrames, err, bufferVars, midiQueue,
                   periodVars, underruns, recoverLog, eventsSeen, ctl, fillVars, setupVars, open,
                   handles, osOpen, midiList, rawmidi, bufferLists, closedTwice, call>>

\* Deactivate: nothing on a driver that is not activated; else it clears
\* activated, sets the terminate flag and joins the thread
Deactivate ==
    /\ call = "none"
    /\ lastCall' = "Deactivate"
    /\ thrown' = ""
    /\ IF ~activated
       THEN UNCHANGED <<activated, terminateAudio_, call>>
       ELSE /\ activated' = FALSE
            /\ terminateAudio_' = TRUE
            /\ call' = IF audioThread THEN "Deactivate" ELSE "none"
    /\ UNCHANGED <<midiVars, histVars, pc, framesToRead, framesRead, rbBuffer,
                   rbFrames, wbBuf, wbFrames, err, bufferVars, midiQueue, periodVars,
                   hostVars, ctl, fillVars, setupVars, open, audioThread, threads, resourceVars>>

\* Close: nothing on a driver that is not open; else open = false,
\* Deactivate(), AlsaCleanup(), DeleteBuffers()
Close ==
    /\ call = "none"
    /\ lastCall' = "Close"
    /\ thrown' = ""
    /\ IF ~open
       THEN UNCHANGED <<open, activated, terminateAudio_, call, resourceVars>>
       ELSE /\ open' = FALSE
            /\ activated' = FALSE
            /\ terminateAudio_' = (terminateAudio_ \/ activated)
            /\ IF activated /\ audioThread
               THEN call' = "Close" /\ UNCHANGED resourceVars
               ELSE call' = "none"
                    /\ SetResources(DeleteBuffers(AlsaCleanup(Resources)))
    /\ UNCHANGED <<midiVars, histVars, pc, framesToRead, framesRead, rbBuffer,
                   rbFrames, wbBuf, wbFrames, err, bufferVars, midiQueue, periodVars,
                   hostVars, ctl, fillVars, setupVars, audioThread, threads>>

\* join returns in Deactivate: audioThread = 0.  A Deactivate called from
\* Close (directly, or from the handler of a failed Open) is followed by
\* AlsaCleanup and DeleteBuffers.
JoinReturn ==
    /\ call # "none"
    /\ JoinReturns(pc)
    /\ audioThread' = FALSE
    /\ call' = "none"
    /\ IF call \in {"Close", "Open"}
       THEN SetResources(DeleteBuffers(AlsaCleanup(Resources)))
       ELSE UNCHANGED resourceVars
    /\ UNCHANGED <<midiVars, histVars, threadVars, bufferVars, midiQueue, periodVars,
                   hostVars, ctl, fillVars, setupVars, open, activated, threads, lastCall,
                   thrown>>

\* the audio thread from its start to the end of the realtime loop, taken
\* as one step: the loop is left on a terminate request or on an error
AudioLoop ==
    /\ pc = "AudioThread"
    /\ pc' = "OnAudioStopped"
    /\ UNCHANGED <<midiVars, histVars, terminateAudio_, framesToRead, framesRead,
                   rbBuffer, rbFrames, wbBuf, wbFrames, err, bufferVars, midiQueue,
                   periodVars, hostVars, ctl, fillVars, restVars>>

\* the state of a driver without an audio thread, but for its lifecycle
NoThread ==
    /\ MidiFresh
    /\ tape = <<>>
    /\ pc = "none"
    /\ terminateAudio_ = FALSE
    /\ framesToRead = 0
    /\ framesRead = 0
    /\ rbBuffer = 0
    /\ rbFrames = 0
    /\ wbBuf = 0
    /\ wbFrames = 0
    /\ err = 0
    /\ rawCaptureBuffer = ZeroBuffer
    /\ captureBuffers = ZeroBuffer
    /\ playbackBuffers = ZeroBuffer
    /\ rawPlaybackBuffer = ZeroBuffer
    /\ midiQueue = [i \in MidiDevs |-> <<>>]
    /\ capConsumed = 0
    /\ playWritten = <<>>
    /\ periodLog = <<>>
    /\ periodPuts = <<>>
    /\ underruns = 0
    /\ recoverLog = <<>>
    /\ notices = <<>>
    /\ eventsSeen = FALSE
    /\ ctl = "idle"
    /\ FillIdle

\* the driver as constructed: no audio thread
Constructed == NoThread /\ LifeFresh

LifeInit == Constructed /\ RestIdle

LifeNext ==
    \/ Open
    \/ Activate
    \/ Deactivate
    \/ Close
    \/ JoinReturn
    \/ AudioLoop
    \/ AudioStopped
    \/ Pump
    \/ PumpOnProcess
    \/ AudioTerminated

\* one control thread that makes the calls of the control plane one after
\* the other, and the audio thread
SpecLife == LifeInit /\ [][LifeNext]_vars

\* operator<< of an int that is not negative: its decimal digits
RECURSIVE Decimal(_)
Decimal(n) == IF n < 10 THEN <<Digits[n + 1]>> ELSE Decimal(n \div 10) \o <<Digits[(n % 10) + 1]>>

\* SS("system::capture_" << i), SS("system::playback_" << i): a port name
\* is a sequence of characters, with its words kept in one piece each
PortName(stream, i) == <<"system::", stream, "_">> \o Decimal(i)

\* the channel indices the selections name: the first channel, the last
\* channel of the largest device, and the one after it
SelectedIndices == {0, MaxChannels - 1, MaxChannels}

\* the selections of at most MaxPorts ports of one stream
PortLists(stream) ==
    UNION {[1 .. n -> {PortName(stream, i) : i \in SelectedIndices}] : n \in 0 .. MaxPorts}

\* the driver after an Open(jackServerSettings, channelSelection) that
\* succeeded with every endpoint: the selection is stored, both streams have
\* their channels and buffers, and nothing is activated
BindInit ==
    /\ NoThread /\ LifeOpened
    /\ FormatIdle /\ CodecIdle /\ CloseIdle
    /\ stored = <<>>
    /\ captureChannels \in 1 .. MaxChannels
    /\ playbackChannels \in 1 .. MaxChannels
    /\ channelSelection \in
          [inputAudioPorts : PortLists("capture"),
           outputAudioPorts : PortLists("playback")]
    /\ ModelIdle
    /\ ProbeIdle

BindNext ==
    \/ Activate
    \/ Deactivate
    \/ Close
    \/ JoinReturn
    \/ AudioLoop
    \/ AudioStopped
    \/ Pump
    \/ PumpOnProcess
    \/ AudioTerminated

\* the lifecycle of a driver that was opened with a channel selection
SpecBind == BindInit /\ [][BindNext]_vars

(***************************************************************************)
(* AlsaDriverImpl::FillOutputBuffer on its own, one action per device call. *)
(* The playback endpoint has a ring buffer of Periods * BufferSize frames.  *)
(* It is not running while FillOutputBuffer works: its start threshold is   *)
(* 0x7fffffff, so a write does not start it, and the callers have prepared  *)
(* it or have not started it yet.  The frames queued are therefore only     *)
(* changed by snd_pcm_writei and snd_pcm_prepare.                           *)
(***************************************************************************)
Capacity == Periods * BufferSize
\* what snd_pcm_avail can return
AvailResults == {Capacity - queued, -EPIPE, -EIO}
Min(a, b) == IF a < b THEN a ELSE b

\* mutant: the failed queries are not counted
NextRetry_stuck(r) == r

\* ++retry
NextRetry(r) == r + 1

\* validate_capture_handle(); memset(rawPlaybackBuffer.data(), 0, ...); retry = 0
FillEnter ==
    /\ fillPc = "FillOutputBuffer"
    /\ rawPlaybackBuffer' = ZeroBuffer
    /\ retry' = 0
    /\ fillPc' = "snd_pcm_avail"
    /\ UNCHANGED <<avail, fillFrames, queued, availFailures>>

\* auto avail = snd_pcm_avail(playbackHandle) and the tests on it
FillAvail ==
    /\ fillPc = "snd_pcm_avail"
    /\ \E a \in AvailResults :
        /\ avail' = a
        /\ IF a < 0
           THEN /\ retry' = NextRetry(retry)
                /\ availFailures' = availFailures + 1
                /\ fillPc' = IF NextRetry(retry) >= FillRetryLimit
                             THEN "throw" ELSE "snd_pcm_prepare"
                /\ UNCHANGED fillFrames
           ELSE IF a = 0
           THEN /\ fillPc' = "return"
                /\ UNCHANGED <<retry, availFailures, fillFrames>>
           ELSE /\ fillFrames' = Min(a, BufferSize)
                /\ fillPc' = "WriteBuffer"
                /\ UNCHANGED <<retry, availFailures>>
    /\ UNCHANGED <<queued, rawPlaybackBuffer>>

\* snd_pcm_prepare(playbackHandle); sleep 100 ms; continue
FillPrepare ==
    /\ fillPc = "snd_pcm_prepare"
    /\ \E ok \in BOOLEAN :
        IF ok THEN queued' = 0 /\ fillPc' = "snd_pcm_avail"
        ELSE UNCHANGED queued /\ fillPc' = "throw"
    /\ UNCHANGED <<retry, avail, fillFrames, availFailures, rawPlaybackBuffer>>

\* one snd_pcm_writei of WriteBuffer(playbackHandle, rawPlaybackBuffer, avail)
FillWrite ==
    /\ fillPc = "WriteBuffer"
    /\ \E r \in WriteiResults(fillFrames) :
        IF r = -EAGAIN
        THEN UNCHANGED <<fillPc, fillFrames, queued>>
        ELSE IF r < 0
        THEN fillPc' = "throw" /\ UNCHANGED <<fillFrames, queued>>
        ELSE /\ queued' = queued + r
             /\ fillFrames' = fillFrames - r
             /\ fillPc' = IF fillFrames - r > 0 THEN "WriteBuffer" ELSE "snd_pcm_avail"
    /\ UNCHANGED <<retry, avail, availFailures, rawPlaybackBuffer>>

\* FillOutputBuffer is called with the ring buffer filled to any level and
\* rawPlaybackBuffer holding what earlier periods left
FillInit ==
    /\ MidiFresh
    /\ tape = <<>>
    /\ pc = "AudioThread"
    /\ terminateAudio_ = FALSE
    /\ framesToRead = 0
    /\ framesRead = 0
    /\ rbBuffer = 0
    /\ rbFrames = 0
    /\ wbBuf = 0
    /\ wbFrames = 0
    /\ err = 0
    /\ rawCaptureBuffer = ZeroBuffer
    /\ captureBuffers = ZeroBuffer
    /\ playbackBuffers = ZeroBuffer
    /\ rawPlaybackBuffer \in [Frames -> {Zero, Old}]
    /\ midiQueue = [i \in MidiDevs |-> <<>>]
    /\ capConsumed = 0
    /\ playWritten = <<>>
    /\ periodLog = <<>>
    /\ periodPuts = <<>>
    /\ underruns = 0
    /\ recoverLog = <<>>
    /\ notices = <<>>
    /\ eventsSeen = FALSE
    /\ ctl = "idle"
    /\ fillPc = "FillOutputBuffer"
    /\ retry = 0
    /\ avail = 0
    /\ fillFrames = 0
    /\ queued \in 0 .. Capacity
    /\ availFailures = 0
    /\ LifeRunning
    /\ RestIdle

FillNext ==
    /\ \/ FillEnter
       \/ FillAvail
       \/ FillPrepare
       \/ FillWrite
    /\ UNCHANGED <<midiVars, histVars, threadVars, rawCaptureBuffer, captureBuffers,
                   playbackBuffers, midiQueue, periodVars, hostVars, ctl, restVars>>

\* the thread that runs FillOutputBuffer is scheduled
SpecFill == FillInit /\ [][FillNext]_vars /\ WF_vars(FillNext)

(***************************************************************************)
(* AlsaDriverImpl::Close called by several threads at once, one action per  *)
(* statement.  open, activated and audioThread are plain members, read and  *)
(* written without a lock; the fences in Close order the accesses of one    *)
(* thread and exclude nothing.                                              *)
(***************************************************************************)
\* the handles in the order AlsaCleanup looks at them
HandleOrder ==
    <<"captureHandle", "playbackHandle", "captureHwParams", "captureSwParams",
      "playbackHwParams", "playbackSwParams">>

At(c, at) == closer[c].at = at
Goto(c, at) == closer' = [closer EXCEPT ![c] = [at |-> at, k |-> 0]]
GotoHandle(c, at, k) ==
    IF k <= Len(HandleOrder)
    THEN closer' = [closer EXCEPT ![c] = [at |-> at, k |-> k]]
    ELSE Goto(c, "midiDevices")

\* what no statement of Close changes
CloserFrame ==
    UNCHANGED <<midiVars, histVars, pc, framesToRead, framesRead, rbBuffer, rbFrames,
                wbBuf, wbFrames, err, bufferVars, midiQueue, periodVars, hostVars,
                ctl, fillVars, threads, callVars, formatVars, codecVars, extraVars>>

\* a thread calls Close
CloseCall ==
    \E c \in Closers :
        /\ At(c, "idle")
        /\ Goto(c, "if (!open)")
        /\ CloserFrame
        /\ UNCHANGED <<open, activated, terminateAudio_, audioThread, resourceVars,
                       joins, touched>>

\* if (!open) return;
CloseTestOpen ==
    \E c \in Closers :
        /\ At(c, "if (!open)")
        /\ Goto(c, IF open THEN "open = false" ELSE "returned")
        /\ CloserFrame
        /\ UNCHANGED <<open, activated, terminateAudio_, audioThread, resourceVars,
                       joins, touched>>

\* open = false; Deactivate();
CloseSetOpen ==
    \E c \in Closers :
        /\ At(c, "open = false")
        /\ open' = FALSE
        /\ touched' = touched \cup {c}
        /\ Goto(c, "if (!activated)")
        /\ CloserFrame
        /\ UNCHANGED <<activated, terminateAudio_, audioThread, resourceVars, joins>>

\* Deactivate: if (!activated) return;
DeactivateTest ==
    \E c \in Closers :
        /\ At(c, "if (!activated)")
        /\ IF activated THEN Goto(c, "activated = false")
           ELSE GotoHandle(c, "AlsaCleanup", 1)
        /\ CloserFrame
        /\ UNCHANGED <<open, activated, terminateAudio_, audioThread, resourceVars,
                       joins, touched>>

\* Deactivate: activated = false; terminateAudio(true);
DeactivateSet ==
    \E c \in Closers :
        /\ At(c, "activated = false")
        /\ activated' = FALSE
        /\ terminateAudio_' = TRUE
        /\ Goto(c, "if (audioThread)")
        /\ CloserFrame
        /\ UNCHANGED <<open, audioThread, resourceVars, joins, touched>>

\* Deactivate: if (audioThread)
DeactivateTestThread ==
    \E c \in Closers :
        /\ At(c, "if (audioThread)")
        /\ IF audioThread THEN Goto(c, "join")
           ELSE GotoHandle(c, "AlsaCleanup", 1)
        /\ CloserFrame
        /\ UNCHANGED <<open, activated, terminateAudio_, audioThread, resourceVars,
                       joins, touched>>

\* Deactivate: this->audioThread->join().  The call goes through a null
\* pointer when another thread has set audioThread to 0 since the test.  On
\* a thread that was joined already the call is undefined when the two calls
\* overlap and throws std::system_error when they do not: it returns or
\* throws.
DeactivateJoin ==
    \E c \in Closers :
        /\ At(c, "join")
        /\ IF ~audioThread
           THEN Goto(c, "null pointer") /\ UNCHANGED joins
           ELSE /\ pc = "done"
                /\ \/ Goto(c, "audioThread = 0") /\ joins' = joins + 1
                   \/ joins > 0 /\ Goto(c, "std::system_error") /\ UNCHANGED joins
        /\ CloserFrame
        /\ UNCHANGED <<open, activated, terminateAudio_, audioThread, resourceVars,
                       touched>>

\* Deactivate: this->audioThread = 0; and the return to Close
DeactivateClear ==
    \E c \in Closers :
        /\ At(c, "audioThread = 0")
        /\ audioThread' = FALSE
        /\ GotoHandle(c, "AlsaCleanup", 1)
        /\ CloserFrame
        /\ UNCHANGED <<open, activated, terminateAudio_, resourceVars, joins, touched>>

\* AlsaCleanup: if (handle), for the next handle
CleanupTest ==
    \E c \in Closers :
        /\ At(c, "AlsaCleanup")
        /\ IF handles[HandleOrder[closer[c].k]]
           THEN GotoHandle(c, "close", closer[c].k)
           ELSE GotoHandle(c, "AlsaCleanup", closer[c].k + 1)
        /\ CloserFrame
        /\ UNCHANGED <<open, activated, terminateAudio_, audioThread, resourceVars,
                       joins, touched>>

\* AlsaCleanup: the close or free of the handle, and handle = nullptr
CleanupClose ==
    \E c \in Closers :
        /\ At(c, "close")
        /\ LET h == HandleOrder[closer[c].k]
           IN /\ osOpen' = osOpen \ {h}
              /\ closedTwice' = (closedTwice \/ h \notin osOpen)
              /\ handles' = [handles EXCEPT ![h] = FALSE]
        /\ GotoHandle(c, "AlsaCleanup", closer[c].k + 1)
        /\ CloserFrame
        /\ UNCHANGED <<open, activated, terminateAudio_, audioThread, midiList, rawmidi,
                       bufferLists, activeCaptureBuffers, activePlaybackBuffers, joins,
                       touched>>

\* AlsaCleanup: every endpoint of midiDevices is closed and the vector
\* emptied
CleanupMidi ==
    \E c \in Closers :
        /\ At(c, "midiDevices")
        /\ rawmidi' = rawmidi - Cardinality(midiList)
        /\ midiList' = {}
        /\ Goto(c, "DeleteBuffers")
        /\ CloserFrame
        /\ UNCHANGED <<open, activated, terminateAudio_, audioThread, handles, osOpen,
                       closedTwice, bufferLists, activeCaptureBuffers,
                       activePlaybackBuffers, joins, touched>>

\* DeleteBuffers, and the return of Close
CloseDeleteBuffers ==
    \E c \in Closers :
        /\ At(c, "DeleteBuffers")
        /\ bufferLists' = {}
        /\ activeCaptureBuffers' = <<>>
        /\ activePlaybackBuffers' = <<>>
        /\ Goto(c, "returned")
        /\ CloserFrame
        /\ UNCHANGED <<open, activated, terminateAudio_, audioThread, handles, osOpen,
                       closedTwice, midiList, rawmidi, joins, touched>>

CloseNext ==
    \/ CloseCall
    \/ CloseTestOpen
    \/ CloseSetOpen
    \/ DeactivateTest
    \/ DeactivateSet
    \/ DeactivateTestThread
    \/ DeactivateJoin
    \/ DeactivateClear
    \/ CleanupTest
    \/ CleanupClose
    \/ CleanupMidi
    \/ CloseDeleteBuffers
    \/ AudioLoop
    \/ AudioStopped
    \/ Pump
    \/ PumpOnProcess
    \/ AudioTerminated

\* an open and activated driver, and threads that call Close when they like
SpecClose == Init /\ [][CloseNext]_vars

(***************************************************************************)
(* The audio thread with a host whose OnProcess can throw.  AudioThread has *)
(* one try block, from the start-up to the end of the realtime loop; the    *)
(* thread function is the lambda { AudioThread(); } of a std::jthread.      *)
(***************************************************************************)
\* driverHost->OnProcess(framesRead) throws in the realtime loop: the call is
\* inside the try block, whose handler logs and goes on to OnAudioStopped
OnProcessThrows ==
    /\ pc = "OnProcess"
    /\ pc' = "OnAudioStopped"
    /\ UNCHANGED <<midiVars, histVars, terminateAudio_, framesToRead, framesRead,
                   rbBuffer, rbFrames, wbBuf, wbFrames, err, bufferVars, midiQueue,
                   periodVars, hostVars, ctl, fillVars, restVars>>

\* driverHost->OnProcess(bufferSize) throws in the silence loop: the call is
\* after the handler, so the exception leaves AudioThread and the thread
\* function, and std::terminate ends the process
PumpOnProcessThrows ==
    /\ pc = "pumpOnProcess"
    /\ pc' = "std::terminate"
    /\ UNCHANGED <<midiVars, histVars, terminateAudio_, framesToRead, framesRead,
                   rbBuffer, rbFrames, wbBuf, wbFrames, err, bufferVars, midiQueue,
                   periodVars, hostVars, ctl, fillVars, restVars>>

ThrowNext ==
    /\ pc # "std::terminate"
    /\ \/ Next
       \/ OnProcessThrows
       \/ PumpOnProcessThrows

SpecThrow == Init /\ [][ThrowNext]_vars

(***************************************************************************)
(* Format negotiation: SetPreferredAlsaFormat.  The device is the set of    *)
(* formats for which snd_pcm_hw_params_set_format returns 0.                *)
(***************************************************************************)
\* static AudioFormat leFormats[], by pcm_format
leFormats_s32First ==
    <<"S32_LE", "FLOAT_LE", "S24_LE", "S24_3LE", "S16_LE">>
leFormats ==
    <<"FLOAT_LE", "S32_LE", "S24_LE", "S24_3LE", "S16_LE">>

\* static AudioFormat beFormats[], by pcm_format
beFormats ==
    <<"FLOAT_BE", "S32_BE", "S24_BE", "S24_3BE", "S16_BE">>

PcmFormats == {leFormats[k] : k \in DOMAIN leFormats} \cup {beFormats[k] : k \in DOMAIN beFormats}

\* the streams SetAlsaParameters configures
StreamTypes == {"capture", "playback"}

\* the loop of the inner SetPreferredAlsaFormat from index i on: the first
\* format that both set_format calls take, or "unset" when it returns false
RECURSIVE TryFormats(_, _, _)
TryFormats(device, formats, i) ==
    IF i > Len(formats) THEN "unset"
    ELSE IF formats[i] \in device THEN formats[i]
    ELSE TryFormats(device, formats, i + 1)

\* the outer SetPreferredAlsaFormat: the format set and what is thrown
PreferredAlsaFormat(device, big) ==
    LET first == IF big THEN beFormats ELSE leFormats
        second == IF big THEN leFormats ELSE beFormats
        f1 == TryFormats(device, first, 1)
        f2 == TryFormats(device, second, 1)
    IN IF f1 # "unset" THEN [format |-> f1, thrown |-> ""]
       ELSE IF f2 # "unset" THEN [format |-> f2, thrown |-> ""]
       ELSE [format |-> "unset", thrown |-> "No supported audio formats"]

\* one call of SetPreferredAlsaFormat for a stream of the device
SetPreferredAlsaFormat ==
    /\ streamType = ""
    /\ \E st \in StreamTypes :
         LET r == PreferredAlsaFormat(accepts, nativeBig)
         IN /\ streamType' = st
            /\ format' = r.format
            /\ formatThrown' = r.thrown
    /\ UNCHANGED <<midiVars, histVars, threadVars, bufferVars, midiQueue, periodVars,
                   hostVars, ctl, fillVars, lifeVars, nativeBig, accepts, codecVars, closeVars,
                   extraVars>>

\* any device, on a host of either endianness
FormatInit ==
    /\ Constructed
    /\ nativeBig \in BOOLEAN
    /\ accepts \in SUBSET PcmFormats
    /\ streamType = ""
    /\ format = "unset"
    /\ formatThrown = ""
    /\ CodecIdle
    /\ CloseIdle
    /\ ExtraIdle

SpecFormat == FormatInit /\ [][SetPreferredAlsaFormat]_vars

(***************************************************************************)
(* The sample codecs: the CopyPlayback and CopyCapture functions, one       *)
(* sample at a time.  A float sample is held as a whole number of quanta of *)
(* 2^-24, which is every float of magnitude 0.5 to 1 and every value of the *)
(* test ramp; a float finer than that is rounded to the nearest quantum.    *)
(* The host is little-endian, as the Le functions assume.                   *)
(***************************************************************************)
\* std::numeric_limits<int16_t>::max()
INT16_MAX == 32767

\* std::numeric_limits<int32_t>::max()
INT32_MAX == 2147483647
INT32_MIN == (-INT32_MAX) - 1

\* 0x00FFFFFF, the scale of the 24-bit formats held in 4 bytes
S24Scale == 16777215

\* 1.0f in quanta
Unit == S24Scale + 1

RECURSIVE Pow2(_)
Pow2(k) == IF k = 0 THEN 1 ELSE 2 * Pow2(k - 1)

\* the number of bits of n > 0
RECURSIVE BitLength(_)
BitLength(n) == IF n = 0 THEN 0 ELSE 1 + BitLength(n \div 2)

Magnitude(v) == IF v < 0 THEN -v ELSE v
Signed(v, a) == IF v < 0 THEN -a ELSE a

\* n / d rounded to the nearest integer, ties to even
NearestEven(n, d) ==
    LET q == n \div d
        r == n % d
    IN IF 2 * r > d \/ (2 * r = d /\ q % 2 = 1) THEN q + 1 ELSE q

\* the float nearest to whole + frac / Unit, for 0 <= frac < Unit and
\* whole < Unit: 24 significant bits, ties to even.  One unit in the last
\* place of a float in [2^k, 2^(k+1)) is 2^(k+1) quanta.
RoundToFloat(whole, frac) ==
    IF whole = 0 THEN [whole |-> 0, frac |-> frac]
    ELSE LET ulp == Pow2(BitLength(whole))
             rem == frac % ulp
             odd == IF ulp = Unit THEN whole % 2 = 1 ELSE (frac \div ulp) % 2 = 1
             up == 2 * rem > ulp \/ (2 * rem = ulp /\ odd)
             f == (frac - rem) + (IF up THEN ulp ELSE 0)
         IN IF f = Unit THEN [whole |-> whole + 1, frac |-> 0]
            ELSE [whole |-> whole, frac |-> f]

\* the product of a / Unit and 2^s - 1, exactly, as whole + frac / Unit
TimesAllOnes(a, s) ==
    LET d == Pow2(24 - s)
        g == (a % d) * Pow2(s) - a
    IN [whole |-> (a \div d) + (g \div Unit), frac |-> g % Unit]

\* (intN_t)(scale * v) for the float scale 2^s - 1: the float product,
\* converted to an integer by truncation
ScaleToInt(v, s) ==
    LET p == TimesAllOnes(Magnitude(v), s)
    IN Signed(v, RoundToFloat(p.whole, p.frac).whole)

\* (int32_t)(scale * v) for constexpr float scale = INT32_MAX, which is 2^31
\* as a float: the results the conversion can have.  At v = 1.0f the product
\* is 2^31, which is no int32_t; the conversion is then undefined, and gives
\* INT32_MIN with the x86-64 instruction and INT32_MAX with the AArch64 one.
ScaleToInt32(v) ==
    IF v = Unit THEN {INT32_MIN, INT32_MAX}
    ELSE IF v = -Unit THEN {INT32_MIN}
    ELSE {v * 128}

\* if (v > 1.0f) v = 1.0f; else if (v < -1.0f) v = -1.0f;
Clamp(v) == IF v > Unit THEN Unit ELSE IF v < -Unit THEN -Unit ELSE v

\* (v >> (8 * k)) & 0xFF
Byte(v, k) == (v \div Pow2(8 * k)) % 256

\* the int16_t and the int32_t with the given bytes, lowest first
Int16(b0, b1) == b0 + 256 * (IF b1 >= 128 THEN b1 - 256 ELSE b1)
Int32(b0, b1, b2, b3) ==
    b0 + 256 * b1 + 65536 * b2 + Unit * (IF b3 >= 128 THEN b3 - 256 ELSE b3)

EndianSwap16(v) == Int16(Byte(v, 1), Byte(v, 0))
EndianSwap32(v) == Int32(Byte(v, 3), Byte(v, 2), Byte(v, 1), Byte(v, 0))

\* p << k for a byte p promoted to int, as a 32-bit two's-complement integer
ShiftLeft(p, k) == IF k = 24 /\ p >= 128 THEN (p - 256) * Unit ELSE p * Pow2(k)

\* x | y on the n low bits of x and y
RECURSIVE OrBits(_, _, _)
OrBits(x, y, n) ==
    IF n = 0 THEN 0
    ELSE (IF x % 2 = 1 \/ y % 2 = 1 THEN 1 ELSE 0) + 2 * OrBits(x \div 2, y \div 2, n - 1)

\* a | b for two int32_t
BitOr(a, b) ==
    Int32(OrBits(Byte(a, 0), Byte(b, 0), 8), OrBits(Byte(a, 1), Byte(b, 1), 8),
          OrBits(Byte(a, 2), Byte(b, 2), 8), OrBits(Byte(a, 3), Byte(b, 3), 8))

\* mutant: the two low bytes are shifted to places that overlap
Packed24_overlap(p0, p1, p2) ==
    BitOr(ShiftLeft(p0, 8) + ShiftLeft(p1, 9), ShiftLeft(p2, 24))

\* int32_t v = (p[0] << 8) + (p[1] << 16) | (p[2] << 24): + binds tighter than |
Packed24(p0, p1, p2) ==
    BitOr(ShiftLeft(p0, 8) + ShiftLeft(p1, 16), ShiftLeft(p2, 24))

\* a store through, and a load from, a pointer into the raw buffer
Store16(v) == <<Byte(v, 0), Byte(v, 1)>>
Store32(v) == <<Byte(v, 0), Byte(v, 1), Byte(v, 2), Byte(v, 3)>>
Load16(b) == Int16(b[1], b[2])
Load32(b) == Int32(b[1], b[2], b[3], b[4])

\* the bits of the float v / Unit, as an int32_t: sign, 8 bits of biased
\* exponent, 23 bits of fraction
FloatBits(v) ==
    IF v = 0 THEN 0
    ELSE LET a == Magnitude(v)
             n == BitLength(a)
             m == IF n <= 24 THEN a * Pow2(24 - n) ELSE a \div Pow2(n - 24)
             u == (n + 102) * 8388608 + (m - 8388608)
         IN IF v < 0 THEN u + INT32_MIN ELSE u

\* the float with the given bits, in quanta
FloatOfBits(w) ==
    LET u == IF w < 0 THEN w - INT32_MIN ELSE w
        n == (u \div 8388608) - 102
        m == (u % 8388608) + 8388608
        a == IF u \div 8388608 = 0 THEN 0
             ELSE IF n >= 24 THEN m * Pow2(n - 24)
             ELSE NearestEven(m, Pow2(24 - n))
    IN IF w < 0 THEN -a ELSE a

\* scale * v for an int32_t v and scale = 2^-24: v as a float, in quanta
FloatOfInt(v) ==
    IF v = INT32_MIN THEN v
    ELSE LET n == BitLength(Magnitude(v))
         IN IF n <= 24 THEN v
            ELSE Signed(v, NearestEven(Magnitude(v), Pow2(n - 24)) * Pow2(n - 24))

\* scale * v for an int32_t v and scale = 2^-31, in quanta
Scale31(v) ==
    IF v = INT32_MIN THEN -Unit
    ELSE Signed(v, NearestEven(Magnitude(v), 128))

\* the playback copy functions: the bytes one sample can be written as
CopyPlaybackS16Le(v) == {Store16(ScaleToInt(Clamp(v), 15))}
CopyPlaybackS16Be(v) == {Store16(EndianSwap16(ScaleToInt(Clamp(v), 15)))}
CopyPlaybackS32Le(v) == {Store32(i) : i \in ScaleToInt32(Clamp(v))}
CopyPlaybackS32Be(v) == {Store32(EndianSwap32(i)) : i \in ScaleToInt32(Clamp(v))}
CopyPlaybackS24Le(v) == {Store32(ScaleToInt(Clamp(v), 24))}
CopyPlaybackS24Be(v) == {Store32(EndianSwap32(ScaleToInt(Clamp(v), 24)))}
CopyPlaybackS24_3Le(v) ==
    {<<Byte(i, 1), Byte(i, 2), Byte(i, 3)>> : i \in ScaleToInt32(Clamp(v))}
CopyPlaybackS24_3Be(v) ==
    {<<Byte(i, 3), Byte(i, 2), Byte(i, 1)>> : i \in ScaleToInt32(Clamp(v))}
CopyPlaybackFloatLe(v) == {Store32(FloatBits(v))}
CopyPlaybackFloatBe(v) == {Store32(EndianSwap32(FloatBits(v)))}

\* the capture copy functions: the float read from the bytes of one sample
CopyCaptureS16Le(b) == Load16(b) * (Unit \div (INT16_MAX + 1))
CopyCaptureS16Be(b) == EndianSwap16(Load16(b)) * (Unit \div (INT16_MAX + 1))
CopyCaptureS32Le(b) == Scale31(Load32(b))
CopyCaptureS32Be(b) == Scale31(EndianSwap32(Load32(b)))
CopyCaptureS24Le(b) == FloatOfInt(Load32(b))
CopyCaptureS24Be(b) == FloatOfInt(EndianSwap32(Load32(b)))
CopyCaptureS24_3Le_low(b) == Scale31(Int32(b[1], b[2], b[3], 0))
CopyCaptureS24_3Le(b) == Scale31(Packed24(b[1], b[2], b[3]))
CopyCaptureS24_3Be(b) == Scale31(Packed24(b[3], b[2], b[1]))
CopyCaptureFloatLe(b) == FloatOfBits(Load32(b))
CopyCaptureFloatBe(b) == FloatOfBits(EndianSwap32(Load32(b)))

\* PreparePlaybackFunctions: the function copyOutputFn is set to
copyOutputFn(playbackFormat, v) ==
    CASE playbackFormat = "FLOAT_LE" -> CopyPlaybackFloatLe(v)
      [] playbackFormat = "S24_3LE" -> CopyPlaybackS24_3Le(v)
      [] playbackFormat = "S32_LE" -> CopyPlaybackS32Le(v)
      [] playbackFormat = "S24_LE" -> CopyPlaybackS24Le(v)
      [] playbackFormat = "S16_LE" -> CopyPlaybackS16Le(v)
      [] playbackFormat = "FLOAT_BE" -> CopyPlaybackFloatBe(v)
      [] playbackFormat = "S24_3BE" -> CopyPlaybackS24_3Be(v)
      [] playbackFormat = "S32_BE" -> CopyPlaybackS32Be(v)
      [] playbackFormat = "S24_BE" -> CopyPlaybackS24Be(v)
      [] playbackFormat = "S16_BE" -> CopyPlaybackS16Be(v)

\* PrepareCaptureFunctions: the function copyInputFn is set to
copyInputFn(captureFormat, b) ==
    CASE captureFormat = "FLOAT_LE" -> CopyCaptureFloatLe(b)
      [] captureFormat = "S24_3LE" -> CopyCaptureS24_3Le(b)
      [] captureFormat = "S32_LE" -> CopyCaptureS32Le(b)
      [] captureFormat = "S24_LE" -> CopyCaptureS24Le(b)
      [] captureFormat = "S16_LE" -> CopyCaptureS16Le(b)
      [] captureFormat = "FLOAT_BE" -> CopyCaptureFloatBe(b)
      [] captureFormat = "S24_3BE" -> CopyCaptureS24_3Be(b)
      [] captureFormat = "S32_BE" -> CopyCaptureS32Be(b)
      [] captureFormat = "S24_BE" -> CopyCaptureS24Be(b)
      [] captureFormat = "S16_BE" -> CopyCaptureS16Be(b)

\* TestFormatEncodeDecode: bufferSize and the channel count
TestBufferSize == 64
TestChannels == 2

\* TestFormatEncodeDecode: playbackBuffers[c][i] of the ramp, in quanta
TestRamp(captureFormat, i, c) ==
    i * (Unit \div TestBufferSize) + i * (Unit \div (128 * 256))
      + (IF captureFormat \notin {"S16_BE", "S16_LE"}
         THEN c * (Unit \div (128 * 256 * 256)) ELSE 0)

\* the samples the codec is run on: the ramp; 1.0, the next float above
\* it, and 1.5; and the negations of all of them
TestValues(captureFormat) ==
    LET pos == {TestRamp(captureFormat, i, c) :
                    i \in 0 .. TestBufferSize - 1, c \in 0 .. TestChannels - 1}
                 \cup {Unit, Unit + 2, Unit + Unit \div 2}
    IN pos \cup {-v : v \in pos}

\* (this->*copyOutputFn)(bufferSize), for one sample
EncodeSample ==
    /\ codecPc = "copyOutputFn"
    /\ rawSample' \in copyOutputFn(codecFormat, testValue)
    /\ codecPc' = "copyInputFn"
    /\ UNCHANGED <<midiVars, histVars, threadVars, bufferVars, midiQueue, periodVars,
                   hostVars, ctl, fillVars, lifeVars, formatVars, closeVars, extraVars,
                   codecFormat,
                   testValue, captured>>

\* the memcpy of the raw playback buffer to the raw capture buffer, and
\* (this->*copyInputFn)(bufferSize), for one sample
DecodeSample ==
    /\ codecPc = "copyInputFn"
    /\ captured' = copyInputFn(codecFormat, rawSample)
    /\ codecPc' = "done"
    /\ UNCHANGED <<midiVars, histVars, threadVars, bufferVars, midiQueue, periodVars,
                   hostVars, ctl, fillVars, lifeVars, formatVars, closeVars, extraVars,
                   codecFormat,
                   testValue, rawSample>>

\* the copy functions are prepared for a format and a sample is in the
\* playback buffer
CodecInit ==
    /\ Constructed
    /\ FormatIdle
    /\ CloseIdle
    /\ ExtraIdle
    /\ codecPc = "copyOutputFn"
    /\ codecFormat \in PcmFormats
    /\ testValue \in TestValues(codecFormat)
    /\ rawSample = <<>>
    /\ captured = 0

SpecCodec == CodecInit /\ [][EncodeSample \/ DecodeSample]_vars

(***************************************************************************)
(* The layout of the raw playback buffer.  A playback copy function walks   *)
(* the frames of the period and, in each frame, a number of channels; it    *)
(* reads buffers[channel][frame] from playbackBuffers, a vector of          *)
(* playbackChannels planar buffers, and stores the sample through p++ into  *)
(* rawPlaybackBuffer, which holds bufferSize * playbackChannels samples.    *)
(* A read of buffers[channel] beyond the vector is undefined: the thread    *)
(* faults or goes on with whatever it read.                                 *)
(***************************************************************************)
\* int channels = ...: the channel count a playback copy function loops over
CopyChannels(playbackFormat) ==
    IF playbackFormat \in {"FLOAT_LE", "FLOAT_BE"}
    THEN captureChannels
    ELSE playbackChannels

\* the stores of for (frame) for (channel) { ... *p++ = ... }, in order: the
\* k-th store writes the sample of this frame and channel at sample index k - 1
Stores(frames, channels) ==
    [k \in 1 .. frames * channels |->
        [frame |-> (k - 1) \div channels, channel |-> (k - 1) % channels]]

\* the stores made before the first read beyond playbackBuffers
BeforeFault(stores) ==
    LET bad == {k \in 1 .. Len(stores) : stores[k].channel >= playbackChannels}
    IN IF bad = {} THEN stores
       ELSE SubSeq(stores, 1, (CHOOSE k \in bad : \A j \in bad : k <= j) - 1)

\* (this->*copyOutputFn)(framesRead) with framesRead = bufferSize
CopyPlayback ==
    /\ codecPc = "copyOutputFn"
    /\ LET stores == Stores(BufferSize, CopyChannels(codecFormat))
       IN \/ stored' = stores /\ codecPc' = "done"
          \/ /\ BeforeFault(stores) # stores
             /\ stored' = BeforeFault(stores)
             /\ codecPc' = "SIGSEGV"
    /\ UNCHANGED <<midiVars, histVars, threadVars, bufferVars, midiQueue, periodVars,
                   hostVars, ctl, fillVars, lifeVars, formatVars, closeVars, codecFormat,
                   testValue, rawSample, captured, captureChannels, playbackChannels,
                   channelSelection, modelVars, probeVars>>

\* the driver has been opened on a device with these channel counts, the copy
\* functions are prepared for the playback format, and the period is processed
LayoutInit ==
    /\ Constructed
    /\ FormatIdle
    /\ CloseIdle
    /\ codecPc = "copyOutputFn"
    /\ codecFormat \in PcmFormats
    /\ testValue = 0
    /\ rawSample = <<>>
    /\ captured = 0
    /\ captureChannels \in 1 .. MaxChannels
    /\ playbackChannels \in 1 .. MaxChannels
    /\ stored = <<>>
    /\ channelSelection = NoSelection
    /\ ModelIdle
    /\ ProbeIdle

SpecLayout == LayoutInit /\ [][CopyPlayback]_vars

\* byte values a device can deliver: 00 01 02 55 7F 80 81 AA FE FF
ByteSamples == {0, 1, 2, 85, 127, 128, 129, 170, 254, 255}

\* a packed 24-bit sample is in the raw capture buffer and copyInputFn is
\* about to read it
PackedInit ==
    /\ Constructed
    /\ FormatIdle
    /\ CloseIdle
    /\ ExtraIdle
    /\ codecPc = "copyInputFn"
    /\ codecFormat \in {"S24_3LE", "S24_3BE"}
    /\ testValue = 0
    /\ rawSample \in [1 .. 3 -> ByteSamples]
    /\ captured = 0

SpecPacked == PackedInit /\ [][DecodeSample]_vars

(***************************************************************************)
(* PiPedalModel: the calls that restart the audio host.  Each control       *)
(* thread has a stack of frames, one per call in progress; a frame holds    *)
(* the function, the position in it, whether its guard owns the mutex and,  *)
(* for RestartAudio, its argument.                                          *)
(***************************************************************************)
Frame(fn, at) == [fn |-> fn, at |-> at, guard |-> FALSE, dummy |-> FALSE]

\* the frame of the call thread t is executing
Top(t) == modelPc[t][Len(modelPc[t])]
Running(t, fn, at) == modelPc[t] # <<>> /\ Top(t).fn = fn /\ Top(t).at = at

\* the stack of thread t with its top frame replaced, with a call on top of
\* it, and after the return of the top frame
Moved(t, frame) == [modelPc[t] EXCEPT ![Len(modelPc[t])] = frame]
Step(t, frame) == modelPc' = [modelPc EXCEPT ![t] = Moved(t, frame)]
Enter(t, frame, callee) == modelPc' = [modelPc EXCEPT ![t] = Append(Moved(t, frame), callee)]
Return(t) == modelPc' = [modelPc EXCEPT ![t] = SubSeq(modelPc[t], 1, Len(modelPc[t]) - 1)]

\* std::recursive_mutex::lock by thread t: waits while another thread owns
\* the mutex, counts an ownership more when t owns it
lock(t) ==
    /\ mutex.owner \in {0, t}
    /\ mutex' = [owner |-> t, count |-> mutex.count + 1]

\* std::recursive_mutex::unlock by its owner
unlock(t) ==
    mutex' = IF mutex.count = 1 THEN NotOwned ELSE [mutex EXCEPT !.count = mutex.count - 1]

\* the destructor of a guard: unlocks when the guard owns the mutex
Release(t, frame) == IF frame.guard THEN unlock(t) ELSE UNCHANGED mutex

\* what the steps of the model leave alone
driverVars == <<midiVars, histVars, threadVars, bufferVars, midiQueue, periodVars, hostVars,
                ctl, fillVars, lifeVars, formatVars, codecVars, closeVars, layoutVars,
                channelSelection>>

\* RestartAudio(useDummyAudioDriver): close the host if it is open, build
\* the configuration, open the host; on an exception close the host and,
\* unless this is the call for the dummy driver, RestartAudio(true)
RestartAudio(t) ==
    /\ modelPc[t] # <<>>
    /\ Top(t).fn = "RestartAudio"
    /\ LET f == Top(t) IN
       \/ /\ f.at = "IsOpen"
          /\ Step(t, [f EXCEPT !.at = IF audioHost.open THEN "Close" ELSE "configure"])
          /\ UNCHANGED <<mutex, audioHost>>
       \/ /\ f.at = "Close"
          /\ audioHost' = [audioHost EXCEPT !.open = FALSE]
          /\ Step(t, [f EXCEPT !.at = "configure"])
          /\ UNCHANGED mutex
       \/ /\ f.at = "configure"
          /\ \E valid \in BOOLEAN :
                Step(t, [f EXCEPT !.at = IF valid THEN "Open" ELSE "catch"])
          /\ UNCHANGED <<mutex, audioHost>>
       \/ /\ f.at = "Open"
          /\ \E opened \in BOOLEAN :
                IF opened
                THEN /\ audioHost' = [open |-> TRUE, dummy |-> f.dummy]
                     /\ Step(t, [f EXCEPT !.at = "return"])
                ELSE /\ Step(t, [f EXCEPT !.at = "catch"])
                     /\ UNCHANGED audioHost
          /\ UNCHANGED mutex
       \/ /\ f.at = "catch"
          /\ audioHost' = [audioHost EXCEPT !.open = FALSE]
          /\ IF f.dummy
             THEN Step(t, [f EXCEPT !.at = "return"])
             ELSE Enter(t, [f EXCEPT !.at = "return"],
                        [Frame("RestartAudio", "IsOpen") EXCEPT !.dummy = TRUE])
          /\ UNCHANGED mutex
       \/ /\ f.at = "return"
          /\ Return(t)
          /\ UNCHANGED <<mutex, audioHost>>
    /\ UNCHANGED <<driverVars, probeVars>>

\* SetJackChannelSelection: stores the selection under a lock_guard in a
\* block of its own, calls RestartAudio after the block, then
\* FireChannelSelectionChanged, which takes a lock_guard of its own
SetJackChannelSelection(t) ==
    /\ \/ /\ modelPc[t] = <<>>
          /\ modelPc' = [modelPc EXCEPT ![t] = <<Frame("SetJackChannelSelection", "lock")>>]
          /\ UNCHANGED mutex
       \/ /\ Running(t, "SetJackChannelSelection", "lock")
          /\ lock(t)
          /\ Step(t, [Top(t) EXCEPT !.at = "unlock", !.guard = TRUE])
       \/ /\ Running(t, "SetJackChannelSelection", "unlock")
          /\ Release(t, Top(t))
          /\ Step(t, [Top(t) EXCEPT !.at = "RestartAudio", !.guard = FALSE])
       \/ /\ Running(t, "SetJackChannelSelection", "RestartAudio")
          /\ Enter(t, [Top(t) EXCEPT !.at = "Fire"], Frame("RestartAudio", "IsOpen"))
          /\ UNCHANGED mutex
       \/ /\ Running(t, "SetJackChannelSelection", "Fire")
          /\ lock(t)
          /\ Step(t, [Top(t) EXCEPT !.at = "return", !.guard = TRUE])
       \/ /\ Running(t, "SetJackChannelSelection", "return")
          /\ Release(t, Top(t))
          /\ Return(t)
    /\ UNCHANGED <<audioHost, driverVars, probeVars>>

\* SetJackServerSettings: takes a unique_lock, stores the settings,
\* guard.unlock(), RestartAudio(); the guard owns nothing when it is destroyed
SetJackServerSettings(t) ==
    /\ \/ /\ modelPc[t] = <<>>
          /\ modelPc' = [modelPc EXCEPT ![t] = <<Frame("SetJackServerSettings", "lock")>>]
          /\ UNCHANGED mutex
       \/ /\ Running(t, "SetJackServerSettings", "lock")
          /\ lock(t)
          /\ Step(t, [Top(t) EXCEPT !.at = "unlock", !.guard = TRUE])
       \/ /\ Running(t, "SetJackServerSettings", "unlock")
          /\ unlock(t)
          /\ Step(t, [Top(t) EXCEPT !.at = "RestartAudio", !.guard = FALSE])
       \/ /\ Running(t, "SetJackServerSettings", "RestartAudio")
          /\ Enter(t, [Top(t) EXCEPT !.at = "return"], Frame("RestartAudio", "IsOpen"))
          /\ UNCHANGED mutex
       \/ /\ Running(t, "SetJackServerSettings", "return")
          /\ Release(t, Top(t))
          /\ Return(t)
    /\ UNCHANGED <<audioHost, driverVars, probeVars>>

\* SetOnboarding: takes a unique_lock, sets the flag, calls
\* SetJackServerSettings; its guard is destroyed when that call has returned
SetOnboarding(t) ==
    /\ \/ /\ modelPc[t] = <<>>
          /\ modelPc' = [modelPc EXCEPT ![t] = <<Frame("SetOnboarding", "lock")>>]
          /\ UNCHANGED mutex
       \/ /\ Running(t, "SetOnboarding", "lock")
          /\ lock(t)
          /\ Step(t, [Top(t) EXCEPT !.at = "SetJackServerSettings", !.guard = TRUE])
       \/ /\ Running(t, "SetOnboarding", "SetJackServerSettings")
          /\ Enter(t, [Top(t) EXCEPT !.at = "return"], Frame("SetJackServerSettings", "lock"))
          /\ UNCHANGED mutex
       \/ /\ Running(t, "SetOnboarding", "return")
          /\ Release(t, Top(t))
          /\ Return(t)
    /\ UNCHANGED <<audioHost, driverVars, probeVars>>

\* Load: reads the configuration and calls RestartAudio; it takes no lock
Load(t) ==
    /\ \/ /\ modelPc[t] = <<>>
          /\ modelPc' = [modelPc EXCEPT ![t] = <<Frame("Load", "RestartAudio")>>]
       \/ /\ Running(t, "Load", "RestartAudio")
          /\ Enter(t, [Top(t) EXCEPT !.at = "return"], Frame("RestartAudio", "IsOpen"))
       \/ /\ Running(t, "Load", "return")
          /\ Return(t)
    /\ UNCHANGED <<mutex, audioHost, driverVars, probeVars>>

ModelInit == Constructed /\ RestIdle

ModelNext ==
    \E t \in Callers :
        \/ SetJackChannelSelection(t)
        \/ SetJackServerSettings(t)
        \/ SetOnboarding(t)
        \/ Load(t)
        \/ RestartAudio(t)

\* control threads that call the entry points of the model that restart
\* the audio host
SpecModel == ModelInit /\ [][ModelNext]_vars

(***************************************************************************)
(* PiPedalAlsaDevices::GetAlsaDevices: the enumeration of the sound cards.  *)
(* A card has a number and a name; two cards of the same make have the same *)
(* name.  What the calls on a card return is an input of each enumeration.  *)
(***************************************************************************)
Cards == 1 .. NumCards

\* snd_ctl_card_info_get_name of the cards of the machine
CardNames == {"USB Audio", "HDA Intel"}

\* what the enumeration meets on a card: snd_ctl_open fails, snd_ctl_card_info
\* fails, snd_pcm_open fails (the device is busy), a hw_params call fails
\* after the open, or every call succeeds
Outcomes == {"no ctl", "no info", "busy", "no params", "probed"}

\* AlsaDeviceInfo of card c as a successful probe fills it in
Info(c) == [cardId_ |-> c, name_ |-> cards[c].name]

\* cacheDevice: cachedDevices[name] = deviceInfo
cacheDevice(cache, name, deviceInfo) ==
    [n \in DOMAIN cache \cup {name} |-> IF n = name THEN deviceInfo ELSE cache[n]]

\* getCachedDevice: whether the cache has an entry of that name
getCachedDevice(cache, name) == name \in DOMAIN cache

\* the body of the loop for the cards from c on, with the cache and the
\* result so far: [cache, result] after the last card
RECURSIVE Enumerate(_, _, _, _)
Enumerate(c, met, cache, res) ==
    IF c > NumCards THEN [cache |-> cache, result |-> res]
    ELSE LET name == cards[c].name IN
         CASE met[c] = "probed" ->
                  Enumerate(c + 1, met, cacheDevice(cache, name, Info(c)), Append(res, Info(c)))
           [] met[c] = "busy" /\ getCachedDevice(cache, name) ->
                  Enumerate(c + 1, met, cache, Append(res, cache[name]))
           [] OTHER -> Enumerate(c + 1, met, cache, res)

GetAlsaDevices ==
    /\ cards # <<>>
    /\ \E met \in [Cards -> Outcomes] :
          LET after == Enumerate(1, met, cachedDevices, <<>>) IN
          /\ cachedDevices' = after.cache
          /\ result' = after.result
          /\ cards' = [c \in Cards |->
                          [cards[c] EXCEPT !.met = met[c],
                                           !.probed = @ \/ met[c] = "probed"]]
    /\ UNCHANGED <<driverVars, modelVars>>

\* the machine before the first enumeration
ProbeInit ==
    /\ Constructed
    /\ FormatIdle /\ CodecIdle /\ CloseIdle
    /\ LayoutIdle
    /\ channelSelection = NoSelection
    /\ ModelIdle
    /\ cards \in [Cards -> [name : CardNames, met : {"none"}, probed : {FALSE}]]
    /\ cachedDevices = EmptyMap
    /\ result = <<>>

SpecProbe == ProbeInit /\ [][GetAlsaDevices]_vars

(***************************************************************************)
(* Reference notions used by the properties                                 *)
(***************************************************************************)
\* the decoder state the properties speak about
DecoderState(dev) ==
    <<dev.runningStatus, dev.dataLength, dev.dataIndex, dev.data0, dev.data1,
      dev.inputProcessingSysex, dev.inputSysexBufferCount>>

\* data bytes of a System Common status: F1:1 F2:2 F3:1 F6:0 F7:0
CommonDataBytes(b) ==
    CASE b = 241 -> 1 [] b = 242 -> 2 [] b = 243 -> 1 [] b = 246 -> 0 [] b = 247 -> 0
      [] OTHER -> -1

\* the events [s, d0, d1] (or [s, d0]) of the complete groups of n data bytes
RECURSIVE Groups(_, _, _)
Groups(s, ds, n) ==
    IF Len(ds) < n THEN <<>>
    ELSE <<(<<s>> \o SubSeq(ds, 1, n))>> \o Groups(s, SubSeq(ds, n + 1, Len(ds)), n)

IsRunningTape(t) ==
    /\ t # <<>>
    /\ t[1] \in 128 .. 239
    /\ \A k \in 2 .. Len(t) : t[k] < 128

OnlyRealtime(buf) == buf # <<>> /\ \A k \in 1 .. Len(buf) : buf[k] >= 248
OnlyData(buf) == buf # <<>> /\ \A k \in 1 .. Len(buf) : buf[k] < 128

\* the stream without its System Realtime bytes
Strip(t) == SelectSeq(t, LAMBDA b : b < 248)

\* the events a freshly opened endpoint decodes from bytes given in one read
DecodeFresh(bytes) ==
    ReadMidiEvents(NewMidiDevice, <<>>, 0, 0, <<bytes>>).puts

Fed == SubSeq(tape, 1, tapePos)

IsPrefix(p, q) == Len(p) <= Len(q) /\ SubSeq(q, 1, Len(p)) = p
Take(q, n) == SubSeq(q, 1, IF Len(q) < n THEN Len(q) ELSE n)

(***************************************************************************)
(* MIDI decoder properties (specification SpecMidi)                         *)
(***************************************************************************)

\* C1: running status.  A freshly opened endpoint that is fed a Voice status
\* s and then data bytes, cut into reads in any way, has emitted exactly one
\* event [s, d0, d1] (or [s, d0] for the one-data-byte statuses Cx, Dx) per
\* complete group of data bytes, in order; the spec's example 80 01 02 03 04
\* 05 | 06 C0 01 02 emits 80 01 02, 80 03 04 and then 80 05 06, C0 01, C0 02.
C1_RunningStatus ==
    /\ IsRunningTape(tape) =>
          EventsBytes(emitted) =
              Groups(tape[1], SubSeq(tape, 2, tapePos), VoiceDataBytes(tape[1]))
    /\ (tape = Example1 /\ tapePos = 6) =>
          EventsBytes(emitted) = <<(<<128, 1, 2>>), (<<128, 3, 4>>)>>
    /\ (tape = Example1 /\ tapePos = 10) =>
          EventsBytes(emitted) =
              <<(<<128, 1, 2>>), (<<128, 3, 4>>), (<<128, 5, 6>>), (<<192, 1>>), (<<192, 2>>)>>

\* C2 (step part): a read that consists of System Realtime bytes only emits
\* no event and leaves runningStatus, dataLength, dataIndex, data0, data1,
\* the SysEx flag and the SysEx scratch count as they were.
C2_RealtimeStep ==
    OnlyRealtime(lastBuf') =>
        /\ DecoderState(midiDevices'[1]) = DecoderState(midiDevices[1])
        /\ lastPut' = <<>>
        /\ midiEventCount' = 0

\* C2 (stream part): the events emitted for a stream are those emitted for
\* the stream with its System Realtime bytes taken out; 90 F8 3C FA 7F emits
\* exactly 90 3C 7F.
C2_RealtimeStream ==
    /\ tape # <<>> => EventsBytes(emitted) = EventsBytes(DecodeFresh(Strip(Fed)))
    /\ (tape = Example2 /\ tapePos = 5) => EventsBytes(emitted) = <<(<<144, 60, 127>>)>>

\* C2: System Realtime bytes (F8..FF) are transparent: they emit nothing and
\* change no decoder state, in every decoder state and anywhere in a stream.
C2_RealtimeTransparent ==
    [][C2_RealtimeStep]_vars /\ []C2_RealtimeStream

\* C2 witness: a Realtime byte was read between the status and the data bytes
\* of a message that was then completed.
C2_Witness ==
    /\ tape = Example2
    /\ tapePos = 5
    /\ EventsBytes(emitted) = <<(<<144, 60, 127>>)>>

\* C3: a SysEx (F0, data bytes, F7) split over several reads and followed by
\* the Voice message 90 40 50 emits exactly the event 90 40 50: nothing for
\* the payload and nothing for the F7 terminator.
C3_SysexDiscarded ==
    (tape \in SysexTapes \cup {Example3}) =>
        /\ tapePos <= Len(tape) - 3 => emitted = <<>>
        /\ tapePos = Len(tape) => EventsBytes(emitted) = <<(<<144, 64, 80>>)>>

\* C4: after a Voice status byte b (80..EF) the decoder expects 2 data bytes
\* when b >> 4 is 8, 9, A, B or E and 1 when it is C or D; a pitch bend status
\* Ex followed by d0, d1 emits the single event [b, d0, d1].
C4_VoiceDataLength ==
    /\ midiDevices[1].runningStatus \in 128 .. 239 =>
          midiDevices[1].dataLength = VoiceDataBytes(midiDevices[1].runningStatus)
    /\ (IsRunningTape(tape) /\ tape[1] \in 224 .. 239 /\ tapePos = 3) =>
          EventsBytes(emitted) = <<Fed>>

\* C5: a System Common status b (F1..F7) gets the data length F1:1 F2:2 F3:1
\* F6:0 F7:0, closes an open SysEx and becomes the running status; F4 and F5
\* are ignored: no event and the running status stays as it was.
C5_SystemCommonLength ==
    /\ midiDevices[1].runningStatus \in 241 .. 247 =>
          /\ midiDevices[1].runningStatus \notin {244, 245}
          /\ midiDevices[1].dataLength = CommonDataBytes(midiDevices[1].runningStatus)
          /\ ~midiDevices[1].inputProcessingSysex
    /\ (Len(lastBuf) = 1 /\ lastBuf[1] \in {244, 245}) => lastPut = <<>>

\* an event as the effect graph may see it
WellFormedEvent(e) ==
    /\ e.size \in 1 .. MAX_MIDI_EVENT_SIZE
    /\ e.buffer[1] >= 128
    /\ e.buffer[1] # 240
    /\ \A k \in 2 .. e.size : e.buffer[k] < 128

\* C6 (state part): every event has 1 <= size <= 3, starts with a status byte
\* other than F0 and carries data bytes < 80 within its size.
C6_WellFormed ==
    /\ \A k \in 1 .. Len(lastPut) : WellFormedEvent(lastPut[k])
    /\ \A k \in 1 .. Len(midiEvents) : WellFormedEvent(midiEvents[k])
    /\ \A k \in 1 .. Len(emitted) : WellFormedEvent(emitted[k])

\* C6 (step part): data bytes read while a SysEx is open emit nothing.
C6_SysexPayloadStep ==
    (midiDevices[1].inputProcessingSysex /\ OnlyData(lastBuf')) =>
        /\ lastPut' = <<>>
        /\ midiDevices'[1].inputProcessingSysex

\* C6: every emitted event is well formed and SysEx content is never emitted.
C6_EventsWellFormed ==
    []C6_WellFormed /\ [][C6_SysexPayloadStep]_vars

\* C6 witness: a SysEx was read and closed, and an event was emitted after it.
C6_Witness ==
    /\ tape = Example3
    /\ tapePos = Len(tape)
    /\ emitted # <<>>

\* the bytes of a malformed tape up to the Voice status that cuts the first
\* message short, and the data bytes after that status
CutAt(t) == CHOOSE k \in 2 .. Len(t) : t[k] >= 128
AfterCut(t) == SubSeq(t, CutAt(t) + 1, Len(t))

\* C32: malformed MIDI is flushed.  When a Voice status byte arrives while
\* the previous message is incomplete or while a SysEx is open, no event is
\* emitted for the abandoned message, the SysEx is closed, and the first
\* event emitted afterwards is made of the new status and of the data bytes
\* that follow it.
C32_MalformedFlushed ==
    tape \in MalformedTapes =>
        /\ tapePos <= CutAt(tape) => emitted = <<>>
        /\ tapePos >= CutAt(tape) => ~midiDevices[1].inputProcessingSysex
        /\ emitted # <<>> =>
              /\ IsPrefix(EventBytes(emitted[1]), <<tape[CutAt(tape)]>> \o AfterCut(tape))
              /\ Len(EventBytes(emitted[1])) >= 2

(***************************************************************************)
(* Realtime loop properties (specification Spec)                            *)
(***************************************************************************)

\* C7 (state part): the event count of the period never exceeds the capacity
\* of the event list.
C7_CountBounded ==
    /\ midiEventCount <= MAX_MIDI_EVENT
    /\ Len(midiEvents) = midiEventCount

\* C7 (step part): a drain of the endpoints leaves the events already stored
\* as they are, appends the decoded events in order while there is room and
\* drops the others.
C7_DrainStep ==
    (pc = "ReadMidiData" /\ pc' = "ReadBuffer") =>
        /\ IsPrefix(midiEvents, midiEvents')
        /\ IsPrefix(periodPuts, periodPuts')
        /\ midiEvents' =
              Take(midiEvents \o SubSeq(periodPuts', Len(periodPuts) + 1, Len(periodPuts')),
                   MAX_MIDI_EVENT)

\* C7: the per-period MIDI event count is at most MAX_MIDI_EVENT over all
\* endpoints drained in the period; when the list is full, further decoded
\* events are dropped and the stored ones are left unchanged.
C7_MidiMapOverflow ==
    []C7_CountBounded /\ [][C7_DrainStep]_vars

\* C7 witness: more events were decoded in the period than the list holds.
C7_Witness ==
    /\ midiEventCount = MAX_MIDI_EVENT
    /\ Len(periodPuts) > MAX_MIDI_EVENT

\* C8: in every period that reaches OnProcess the frames taken from the
\* capture device are period_frames, and so are the frames written to
\* playback, however the device splits the period into partial reads.
C8_FrameConservation ==
    /\ pc \in {"copyInputFn", "OnProcess", "copyOutputFn", "WriteBuffer"} =>
          capConsumed = BufferSize
    /\ (periodLog # <<>> /\ periodLog[Len(periodLog)] = "write") =>
          /\ Len(playWritten) = BufferSize
          /\ capConsumed = Len(playWritten)

\* the steps of a period
FullPeriod == <<"reset", "midi", "read", "decode", "process", "encode", "write">>

\* C9: the steps of a period occur in the order event count reset, MIDI
\* drain, capture read, decode, OnProcess, encode, playback write; OnProcess
\* sees capture frames and MIDI events obtained in its own period, and the
\* playback write carries the outputs of that OnProcess.
C9_PeriodOrder ==
    /\ IsPrefix(periodLog, FullPeriod)
    /\ pc = "OnProcess" =>
          /\ \A j \in Frames : captureBuffers[j] = Cur
          /\ midiEvents = Take(periodPuts, MAX_MIDI_EVENT)
    /\ \A k \in 1 .. Len(playWritten) : playWritten[k] = Cur

\* C10: every MIDI event handed to the effect graph has time = 0, for every
\* pattern of partial capture reads.
C10_MidiTimeZero ==
    pc = "OnProcess" =>
        \A k \in 1 .. Len(midiEvents) : midiEvents[k].time = 0

(***************************************************************************)
(* Recovery (specification Spec)                                            *)
(***************************************************************************)
AllOk(log) == \A k \in 1 .. Len(log) : log[k].ok
Has(log, step) == \E k \in 1 .. Len(log) : log[k] = step

\* C11 (step part): when the capture read failed with -EPIPE and every
\* recovery call succeeds, OnUnderrun has been called once for the failure,
\* the period has had no OnProcess and no playback write, and the thread is
\* back at the top of the realtime loop, not stopped, with the decoder state,
\* the event list and the terminate flag as they were.
C11_RecoveryStep ==
    (/\ pc = "recover_from_input_underrun"
     /\ err = -EPIPE
     /\ Len(recoverLog') = Len(InputRecoverySteps)
     /\ AllOk(recoverLog')) =>
        /\ underruns' = 1
        /\ ~Has(periodLog', "process")
        /\ ~Has(periodLog', "write")
        /\ playWritten' = <<>>
        /\ pc' = "loop"
        /\ notices' = <<>>
        /\ UNCHANGED <<midiVars, terminateAudio_>>

\* C11 (state part): a period has at most one OnUnderrun call.
C11_OneUnderrun == underruns <= 1

\* C11: a capture XRUN (-EPIPE) whose recovery succeeds gives exactly one
\* OnUnderrun call, skips OnProcess and the playback write of the period and
\* leaves the audio thread running at the top of the loop.
C11_CaptureXrunRecovery == []C11_OneUnderrun /\ [][C11_RecoveryStep]_vars

\* C11 witness: a capture XRUN after a processed period has been recovered.
C11_Witness ==
    /\ pc = "loop"
    /\ ~terminateAudio_
    /\ underruns = 1
    /\ Len(recoverLog) = Len(InputRecoverySteps)
    /\ AllOk(recoverLog)
    /\ \A j \in Frames : playbackBuffers[j] = Old

\* C12: recovery from a capture XRUN makes the device calls unlink, drop
\* both, prepare both, pre-fill, relink, restart capture in this order, and
\* a call that fails is the last one made and ends the recovery with an
\* error.
C12_RecoveryOrder ==
    [][(pc = "recover_from_input_underrun" /\ err = -EPIPE) =>
          /\ Len(recoverLog') <= Len(InputRecoverySteps)
          /\ \A k \in 1 .. Len(recoverLog') :
                /\ recoverLog'[k].step = InputRecoverySteps[k]
                /\ ~recoverLog'[k].ok => (k = Len(recoverLog') /\ pc' = "OnAudioStopped")
      ]_vars

\* C13: a playback write that fails with -EPIPE is recovered with the same
\* device calls as a capture read that fails with -EPIPE.
C13_SameRecovery ==
    [][(pc = "recover_from_output_underrun" /\ err = -EPIPE /\ AllOk(recoverLog')
            /\ pc' = "loop") =>
          [k \in 1 .. Len(recoverLog') |-> recoverLog'[k].step] = InputRecoverySteps
      ]_vars

\* C14: when the capture read returned -ESTRPIPE the recovery calls resume,
\* falls back to prepare when resume fails, and the thread goes on with the
\* realtime loop unless that prepare fails too.
C14_SuspendRecovery ==
    [][(pc = "recover_from_input_underrun" /\ err = -ESTRPIPE) =>
          /\ recoverLog' # <<>>
          /\ recoverLog'[1].step = "resume"
          /\ (pc' = "loop" \/ ~recoverLog'[Len(recoverLog')].ok)
      ]_vars

(***************************************************************************)
(* Playback pre-fill (specification SpecFill)                               *)
(***************************************************************************)
\* C15 (state part): at most 5 snd_pcm_avail queries of a call fail, and a
\* call that returns normally has seen snd_pcm_avail report 0 last.
C15_Bounded ==
    /\ availFailures <= FillRetryLimit
    /\ fillPc = "return" => (avail = 0 /\ queued = Capacity)
    /\ fillPc \in {"snd_pcm_prepare", "WriteBuffer"} => availFailures < FillRetryLimit

\* C15 (step part): a failed query below the limit is followed by a prepare
\* of the playback endpoint, and the fifth failed query gives up.
C15_RetryStep ==
    (fillPc = "snd_pcm_avail" /\ avail' < 0) =>
        fillPc' = IF availFailures' = FillRetryLimit THEN "throw" ELSE "snd_pcm_prepare"

C16_TerminateRespected ==
    terminateAudio_ ~> (pc = "done" /\ Has(notices, "OnAudioTerminated"))

\* C17: once Deactivate has set terminate, the flag stays set until that
\* Deactivate call returns, whatever other control-plane call is made meanwhile.
C17_TerminateMonotonic ==
    [][(ctl = "join" /\ terminateAudio_) => (terminateAudio_' \/ ctl' = "returned")]_vars

Lifecycle == <<"OnAudioStopped", "OnAudioTerminated">>

\* the notices so far are the beginning of OnAudioStopped, OnAudioTerminated;
\* a thread that has returned has given both, and OnAudioTerminated is given
\* with terminate set and is the last thing the thread does
C18_Notices ==
    /\ IsPrefix(notices, Lifecycle)
    /\ pc = "done" <=> notices = Lifecycle
    /\ Has(notices, "OnAudioTerminated") => terminateAudio_

\* nothing is called after OnAudioTerminated: the thread stays returned, with
\* no further OnProcess output, underrun or notice
C18_Quiet ==
    Has(notices, "OnAudioTerminated") =>
        /\ pc' = "done"
        /\ notices' = notices
        /\ underruns' = underruns
        /\ playbackBuffers' = playbackBuffers
        /\ eventsSeen' = eventsSeen

C19_Silence ==
    pc \in {"pump", "pumpOnProcess"} => captureBuffers = ZeroBuffer

\* the silence loop: an abnormal exit with terminate clear enters it, a test
\* that finds terminate clear is followed by OnProcess over a whole period, a
\* test that finds terminate set by OnAudioTerminated
C19_PumpStep ==
    /\ (pc = "OnAudioStopped" /\ ~terminateAudio_ /\ pc' # pc) => pc' = "pump"
    /\ (pc = "pump" /\ ~terminateAudio_ /\ pc' # pc) => pc' = "pumpOnProcess"
    /\ (pc = "pump" /\ terminateAudio_ /\ pc' # pc) => pc' = "OnAudioTerminated"
    /\ (pc = "pumpOnProcess" /\ pc' # pc) =>
            /\ pc' = "pump"
            /\ playbackBuffers' = [j \in Frames |-> Cur]
            /\ captureBuffers' = ZeroBuffer

\* C19 (as amended): after an abnormal exit with terminate clear the thread
\* zeroes the capture buffers and keeps invoking OnProcess over a whole period,
\* all capture buffers all-zero at each invocation, until a test of the loop
\* finds terminate set; after that test it invokes OnProcess no more and gives
\* OnAudioTerminated.
C19_SilencePump == []C19_Silence /\ [][C19_PumpStep]_vars

\* C19 (as stated): once terminate is set the silence loop invokes OnProcess
\* no more.
C19_NoProcessAfterTerminate ==
    [][terminateAudio_ => ~(pc = "pumpOnProcess" /\ pc' = "pump")]_vars

\* the silence loop about to invoke OnProcess after a period whose input was
\* copied and whose output was written
C19_Witness ==
    /\ pc = "pumpOnProcess"
    /\ ~terminateAudio_
    /\ captureBuffers = ZeroBuffer
    /\ playWritten # <<>>
    /\ \E j \in Frames : rawCaptureBuffer[j] = Cur

\* C20: at every OnProcess invocation of the audio thread, in the realtime
\* loop and in the silence loop, the visible MIDI events have not been visible
\* to an earlier invocation.
C20_DeliveredOnce ==
    pc \in {"OnProcess", "pumpOnProcess"} => ~(eventsSeen /\ midiEventCount > 0)

(***************************************************************************)
(* The control plane (specification SpecLife)                               *)
(***************************************************************************)
AllNull == \A n \in HandleNames : ~handles[n]

\* C21: Open on an open driver throws "Already open." and changes nothing:
\* the open and activated flags, the terminate flag, the handles, the MIDI
\* endpoints and the buffers are as before the call.
C21_AlreadyOpen ==
    [][(open /\ call = "none" /\ lastCall' = "Open" /\ thrown' = "Already open.") =>
            /\ open' = open
            /\ activated' = activated
            /\ terminateAudio_' = terminateAudio_
            /\ handles' = handles
            /\ midiList' = midiList
            /\ rawmidi' = rawmidi
            /\ bufferLists' = bufferLists]_vars

\* C22: when an Open that failed has returned to its caller the driver is
\* closed, both PCM handles and the four parameter blocks are null and
\* released, no raw MIDI handle is open, and the next Open is not refused.
C22_FailedOpenReleases ==
    (lastCall = "Open" /\ call = "none" /\ thrown \notin {"", "Already open."}) =>
        /\ ~open
        /\ AllNull
        /\ osOpen = {}
        /\ midiList = {}
        /\ rawmidi = 0

\* at most one audio thread is alive
C23_AtMostOne == threads <= 1

\* no step taken on an activated driver spawns a thread, and "Already
\* activated." is thrown on an activated driver only
C23_Refused ==
    /\ activated => threads' <= threads
    /\ (lastCall' = "Activate" /\ thrown' = "Already activated.") => activated
    /\ (activated /\ lastCall # "Activate" /\ lastCall' = "Activate") =>
            thrown' = "Already activated."

\* C23: Activate on an activated driver throws "Already activated." without
\* spawning a thread, and over any sequence of Open, Activate, Deactivate and
\* Close at most one audio thread is alive at any time.
C23_OneAudioThread == []C23_AtMostOne /\ [][C23_Refused]_vars

\* a second Activate was refused while the thread of the first is alive
C23_Witness ==
    /\ lastCall = "Activate"
    /\ thrown = "Already activated."
    /\ threads = 1
    /\ pc \notin {"none", "done"}

\* when the join of Deactivate returns the thread has returned, after
\* OnAudioTerminated
C24_Joined ==
    (call = "Deactivate" /\ call' = "none") =>
        /\ pc = "done"
        /\ Has(notices, "OnAudioTerminated")
        /\ threads = 0

\* on a driver that is not activated, with no call waiting in join, the
\* audio thread makes no step: no host callback occurs
C24_Quiet ==
    (~activated /\ ~activated' /\ call = "none" /\ call' = "none") =>
        /\ pc' = pc
        /\ notices' = notices
        /\ underruns' = underruns
        /\ playbackBuffers' = playbackBuffers

\* Deactivate on a driver that is not activated changes nothing
C24_Noop ==
    (~activated /\ call = "none" /\ lastCall' = "Deactivate") =>
        UNCHANGED <<open, activated, terminateAudio_, audioThread, threads,
                    resourceVars, call, pc, notices>>

\* C24: when Deactivate returns on an activated driver the audio thread has
\* exited and has emitted OnAudioTerminated, no host callback occurs
\* afterwards, and Deactivate on a driver that is not activated changes no
\* state.
C24_DeactivateJoins == [][C24_Joined /\ C24_Quiet /\ C24_Noop]_vars

\* Deactivate has returned from an activated driver whose thread went
\* through the silence loop
C24_Witness ==
    /\ lastCall = "Deactivate"
    /\ call = "none"
    /\ ~activated
    /\ pc = "done"
    /\ notices = Lifecycle
    /\ terminateAudio_
    /\ \A j \in Frames : playbackBuffers[j] = Cur

\* C25: every Close leaves the driver closed, not activated, the audio
\* thread joined, every handle null and the buffer lists empty; a Close on a
\* driver that is not open changes nothing; no handle is closed twice.
C25_CloseIdempotent ==
    /\ (lastCall = "Close" /\ call = "none") =>
            /\ ~open
            /\ ~activated
            /\ threads = 0
            /\ AllNull
            /\ midiList = {}
            /\ bufferLists = {}
    /\ ~closedTwice

\* C27: for each direction the format selected is the first one the device
\* accepts in the order F32, S32, S24 in 4 bytes, S24 packed in 3 bytes, S16
\* of the native endianness and then the same order of the other endianness;
\* the negotiation fails with 'No supported audio formats' exactly when the
\* device accepts none of the ten formats.
SampleKinds == <<"FLOAT", "S32", "S24", "S24_3", "S16">>
FormatName(kind, big) ==
    IF kind \in {"S24_3"} THEN "S24_3" \o (IF big THEN "BE" ELSE "LE")
    ELSE kind \o (IF big THEN "_BE" ELSE "_LE")
Preference(big) ==
    [k \in 1 .. 10 |-> IF k <= 5 THEN FormatName(SampleKinds[k], big)
                       ELSE FormatName(SampleKinds[k - 5], ~big)]
C27_FormatNegotiation ==
    streamType # "" =>
        LET order == Preference(nativeBig)
            taken == {k \in 1 .. 10 : order[k] \in accepts}
        IN /\ (formatThrown = "No supported audio formats") <=> (taken = {})
           /\ formatThrown \in {"", "No supported audio formats"}
           /\ taken = {} => format = "unset"
           /\ taken # {} =>
                /\ formatThrown = ""
                /\ \E k \in taken : /\ format = order[k]
                                    /\ \A j \in taken : k <= j
C27_Witness ==
    /\ streamType # ""
    /\ ~nativeBig
    /\ accepts = {"S16_LE", "S32_BE", "S24_3BE"}
    /\ format = "S16_LE"

\* C28: encoding a value of the test ramp x[i] = i/64 + i/32768 (64 frames,
\* 2 channels) with the playback copy function of a format and decoding the
\* bytes with the capture copy function of the same format gives a value
\* whose absolute difference from the original is less than 4e-5 for the 24-
\* and 32-bit formats and less than 2^-15 for the 16-bit formats.
RoundTripError == Magnitude(captured - testValue)
SixteenBit == codecFormat \in {"S16_LE", "S16_BE"}
\* e / Unit < 4e-5
Below4e5(e) == e < 1000 /\ e * 100000 < 4 * Unit
\* 2^-15 in quanta
TwoToMinus15 == Unit \div (128 * 256)
RoundTripDone == codecPc = "done" /\ Magnitude(testValue) < Unit
C28_RoundTrip ==
    RoundTripDone =>
        IF SixteenBit THEN RoundTripError < TwoToMinus15
        ELSE Below4e5(RoundTripError)
\* C28, amended: the difference is less than 4e-5 for every format, and for
\* the 16-bit formats at most 2^-15.
C28_RoundTripWithin ==
    RoundTripDone =>
        /\ Below4e5(RoundTripError)
        /\ SixteenBit => RoundTripError <= TwoToMinus15
C28_Witness ==
    /\ RoundTripDone
    /\ codecFormat = "S16_BE"
    /\ testValue = TestRamp("S16_BE", TestBufferSize - 1, 1)
    /\ RoundTripError = TwoToMinus15

\* C29: for every integer format, encoding a sample above +1.0 writes the
\* largest positive integer of the format (2^15-1 for S16, 2^23-1 for the
\* 24-bit formats, 2^31-1 for S32), encoding a sample below -1.0 writes the
\* negation of it, and no encoded value lies outside the signed range of the
\* format.
IntegerFormat == codecFormat \in PcmFormats \ {"FLOAT_LE", "FLOAT_BE"}
FormatMax ==
    CASE codecFormat \in {"S16_LE", "S16_BE"} -> 32767
      [] codecFormat \in {"S24_LE", "S24_BE", "S24_3LE", "S24_3BE"} -> 8388607
      [] OTHER -> 2147483647
\* the integer that the bytes written are, in the layout of the format
Written ==
    LET b == rawSample
    IN CASE codecFormat = "S16_LE" -> Int16(b[1], b[2])
         [] codecFormat = "S16_BE" -> Int16(b[2], b[1])
         [] codecFormat \in {"S32_LE", "S24_LE"} -> Int32(b[1], b[2], b[3], b[4])
         [] codecFormat \in {"S32_BE", "S24_BE"} -> Int32(b[4], b[3], b[2], b[1])
         [] codecFormat = "S24_3LE" -> Int32(b[1], b[2], b[3], IF b[3] >= 128 THEN 255 ELSE 0)
         [] codecFormat = "S24_3BE" -> Int32(b[3], b[2], b[1], IF b[1] >= 128 THEN 255 ELSE 0)
C29_Saturation ==
    (codecPc # "copyOutputFn" /\ IntegerFormat) =>
        /\ testValue > Unit => Written = FormatMax
        /\ testValue < -Unit => Written = -FormatMax
        /\ Written <= FormatMax
        /\ Written >= (-FormatMax) - 1

\* C30: no exception escapes the audio thread: a failure raised in
\* AudioThread, in the start-up, the period loop, the XRUN recovery or a host
\* callback of the silence loop, never leaves the thread function, and a
\* thread that has ended has given OnAudioStopped and OnAudioTerminated.
C30_NoEscape ==
    /\ pc # "std::terminate"
    /\ pc = "done" => notices = Lifecycle

\* C26: for every interleaving of concurrent Close calls on an open driver,
\* exactly one call performs the shutdown and every other call returns
\* without touching the device; no handle is closed twice and the thread is
\* joined once.
C26_OneShutdown ==
    /\ Cardinality(touched) <= 1
    /\ ~closedTwice
    /\ joins <= 1
    /\ \A c \in Closers : closer[c].at \notin {"null pointer", "std::system_error"}
    /\ (\A c \in Closers : closer[c].at = "returned") =>
            (Cardinality(touched) = 1 /\ joins = 1 /\ osOpen = {})

\* C33: MIDI handles are not leaked.  Every raw MIDI handle that an endpoint's
\* Open got from snd_rawmidi_open is closed by the time the driver is closed:
\* also when a later step of that endpoint's Open failed and was logged, and
\* also when the driver's Open failed afterwards.
C33_MidiHandlesClosed ==
    (~open /\ call = "none") => rawmidi = 0

\* C34: XRUN recovery does not depend on linking.  A recovery from a capture
\* XRUN (-EPIPE) that got as far as the pre-fill, and in which no device
\* call other than the relinking of the two streams failed, leaves the
\* thread at the top of the realtime loop; a device that does not support
\* linking fails the relinking, as it did at open.
C34_RecoveryWithoutLink ==
    [][(/\ pc = "recover_from_input_underrun"
        /\ err = -EPIPE
        /\ Has(recoverLog', [step |-> "FillOutputBuffer", ok |-> TRUE])
        /\ \A k \in 1 .. Len(recoverLog') :
               recoverLog'[k].step # "link" => recoverLog'[k].ok) =>
            pc' = "loop"
      ]_vars

\* C37: the audio thread only runs on an open device: in every state reached
\* by Open, Activate, Deactivate and Close calls, activated implies open, no
\* audio thread is alive while the device handles are null, and a Close that
\* has returned has left no audio thread behind.
C37_ActivatedImpliesOpen ==
    /\ activated => open
    /\ threads > 0 => ~AllNull
    /\ (lastCall = "Close" /\ call = "none") => threads = 0

\* C38: re-activation processes audio: whenever Activate spawns an audio
\* thread the terminate flag is false, so that the thread of an Activate
\* that follows a Deactivate on a driver that stayed open enters the realtime
\* loop instead of leaving it before its first period.
C38_Reactivation ==
    [][threads' = threads + 1 => ~terminateAudio_']_vars

\* the bytes p[0], p[1], p[2] of the source expression for the sample in the
\* raw buffer
PackedBytes ==
    IF codecFormat = "S24_3LE" THEN rawSample
    ELSE <<rawSample[3], rawSample[2], rawSample[1]>>
\* (p0 << 8) | (p1 << 16) | (p2 << 24)
PureOr(p) == BitOr(BitOr(ShiftLeft(p[1], 8), ShiftLeft(p[2], 16)), ShiftLeft(p[3], 24))

\* C40: S24-packed decode expression.  For the bytes p0, p1, p2 of a packed
\* sample, ((p0 << 8) + (p1 << 16)) | (p2 << 24) as a 32-bit two's-complement
\* integer equals the pure bit-OR (p0 << 8) | (p1 << 16) | (p2 << 24), which
\* is the 24-bit sample in the high 24 bits with the low 8 bits zero, and
\* this is the integer the capture copy function scales.
C40_PackedDecode ==
    (codecFormat \in {"S24_3LE", "S24_3BE"} /\ Len(rawSample) = 3) =>
        /\ Packed24(PackedBytes[1], PackedBytes[2], PackedBytes[3]) = PureOr(PackedBytes)
        /\ PureOr(PackedBytes) = Int32(0, PackedBytes[1], PackedBytes[2], PackedBytes[3])
        /\ codecPc = "done" => captured = Scale31(PureOr(PackedBytes))

\* C40 witness: a negative sample with all bits of its low byte set was decoded
C40_Witness ==
    /\ codecFormat = "S24_3LE"
    /\ codecPc = "done"
    /\ rawSample[1] = 255
    /\ rawSample[3] >= 128
    /\ captured < 0

\* C31: interleaved layout of encode.  For every playback format the playback
\* copy function stores exactly period_frames x playback_channels samples,
\* the sample of frame f and playback channel c at sample index
\* f x playback_channels + c; it reads only the playback_channels planar
\* playback buffers and stores nothing past the end of the raw playback
\* buffer, also when the capture and playback channel counts differ.
C31_InterleavedLayout ==
    (codecPc \in {"done", "SIGSEGV"} /\ playbackChannels > 0) =>
        /\ codecPc = "done"
        /\ Len(stored) = BufferSize * playbackChannels
        /\ \A k \in 1 .. Len(stored) :
              /\ stored[k].channel < playbackChannels
              /\ k - 1 = stored[k].frame * playbackChannels + stored[k].channel

\* the device channel the i-th port of a selection names
NamedChannel(ports, i) == IndexFromPortName(ports[i])

\* GetInputBuffer(i) / GetOutputBuffer(i) is the buffer of the channel the
\* i-th selected port names
BoundTo(active, ports) ==
    /\ Len(active) = Len(ports)
    /\ \A i \in 1 .. Len(active) :
          active[i] # nullptr /\ active[i] = <<NamedChannel(ports, i)>>

\* C39: after an Activate that did not throw on an open driver, every
\* buffer below InputBufferCount() (OutputBufferCount()) is not null and is
\* the planar buffer of the channel its selected port names
C39_PortBinding ==
    (open /\ activated /\ lastCall = "Activate" /\ thrown = "")
        => /\ BoundTo(activeCaptureBuffers, channelSelection.inputAudioPorts)
           /\ BoundTo(activePlaybackBuffers, channelSelection.outputAudioPorts)

\* thread t is in RestartAudio, or in a call RestartAudio made
InRestartAudio(t) == \E i \in 1 .. Len(modelPc[t]) : modelPc[t][i].fn = "RestartAudio"

\* C36: on every call path, RestartAudio runs while the calling thread
\* holds no ownership of the recursive mutex of the model
C36_RestartWithoutLock ==
    \A t \in Callers : InRestartAudio(t) => mutex.owner # t

\* the vector the last enumeration returned holds the device info x
Returned(x) == \E i \in 1 .. Len(result) : result[i] = x

\* C35: after an enumeration, a card whose probe succeeded is returned and
\* its record is in the cache; a card whose PCM could not be opened and that
\* was probed successfully before is returned with the record of that probe
C35_ProbeCache ==
    \A c \in DOMAIN cards :
        /\ cards[c].met = "probed" =>
               /\ Returned(Info(c))
               /\ getCachedDevice(cachedDevices, cards[c].name)
               /\ cachedDevices[cards[c].name] = Info(c)
        /\ (cards[c].met = "busy" /\ cards[c].probed) => Returned(Info(c))

\* an enumeration removes no name from the cache; the record under a name
\* is replaced by each successful probe of a card of that name
CacheKeysKept ==
    [][DOMAIN cachedDevices \subseteq DOMAIN cachedDevices']_vars

====
